---- MODULE Spec2Model ----
(***************************************************************************)
(* A model of the reaction-recipe engine, of the reaction generator and of *)
(* the tree inducer of RMG-Py's kinetics families                          *)
(* (rmgpy/data/kinetics/family.py and rmgpy/data/kinetics/database.py).    *)
(*                                                                         *)
(* The module holds several specifications over one set of variables; each *)
(* specification drives one component and leaves the variables of the      *)
(* other components at their idle values.                                   *)
(*   SpecRecipe   ReactionRecipe: addAction, getReverse, __apply            *)
(*   SpecCharge   KineticsFamily.applyRecipe                                *)
(*   SpecGen      KineticsFamily.generateReactions, called directly or by   *)
(*                KineticsDatabase.react_molecules                          *)
(*   SpecReverse  KineticsFamily.addReverseAttribute                        *)
(*   SpecSame     the same_reactants flag, in the three places computing it *)
(*   SpecDegen    KineticsFamily.calculateDegeneracy                        *)
(*   SpecTree     KineticsFamily.makeTreeNodes in the coordinator and the  *)
(*                workers it spawns, then getReactionMatches               *)
(*   FairTree     SpecTree with every process running on                   *)
(*   SpecReg      KineticsFamily.simpleRegularization and checkTree        *)
(*   SpecBest     KineticsFamily.__selectBestKinetics                      *)
(***************************************************************************)
EXTENDS Integers, Sequences, FiniteSets, TLC

VARIABLES
    pc,        \* position of the running scenario
    recipe,    \* ReactionRecipe.actions of the recipe R under study
    rev,       \* R.getReverse().actions, once computed
    revrev,    \* R.getReverse().getReverse().actions, once computed
    struct,    \* the structure the recipe is applied to (edited in place)
    orig,      \* the structure as it was before the first application
    mid,       \* the structure as the forward application left it
    err,       \* error raised by the first application ("none" if it returned)
    errAt,     \* index of the action of R that raised it (0 if none did)
    err2,      \* error raised by the second application ("none" if it returned)
    arIn,      \* applyRecipe: what the call is given and what its collaborators answer
    arOut,     \* applyRecipe: how the call ended
    genCfg,    \* generateReactions: the reactants, the matches, the family's flags
    gpc,       \* generateReactions: where the call stands
    passFwd,   \* the direction of the running __generateReactions pass
    tried,     \* per pass, what the collaborators answered for each mapping tried
    gen,       \* the running pass: rxn_list, the labeled structures, the error raised
    reactionList, \* generateReactions: reaction_list
    revIn,     \* addReverseAttribute: the family, the reaction, what regeneration finds
    revOut,    \* addReverseAttribute: how the call ended and whether rxn.reverse is set
    degIn,     \* the reactants whose same_reactants flag and degeneracy are computed
    degOut,    \* the flag or the degeneracy computed for them
    tcfg,      \* makeTreeNodes: the training reactions and the parameters of the call
    procs,     \* makeTreeNodes: the coordinator and the worker processes it spawned
    regSt,     \* simpleRegularization: the node, its children and how far the call is
    kin,       \* __selectBestKinetics: the kinetics list given and the entry returned
    rb,        \* getRxnBatches: the arguments, the strata and the batches so far
    lrp,       \* getLabeledReactantsAndProducts: the matches and how far the call is
    ord,       \* __generateReactions: the reactant lists and the orders tried so far
    db         \* KineticsDatabase.generate_reactions: the call and its reactionList

recipeVars == <<pc, recipe, rev, revrev, struct, orig, mid, err, errAt, err2>>
chargeVars == <<arIn, arOut>>
genVars == <<genCfg, gpc, passFwd, tried, gen, reactionList>>
revVars == <<revIn, revOut>>
degVars == <<degIn, degOut>>
callVars == <<lrp, ord, db>>
generatorVars == <<recipeVars, chargeVars, genVars, revVars, degVars, callVars>>
treeVars == <<tcfg, procs>>
inducerVars == <<treeVars, regSt, kin, rb>>
vars == <<generatorVars, inducerVars>>

----------------------------------------------------------------------------
(* Bounds *)

\* longest recipe explored
MaxLen == 2

\* most reactant structures, and most product structures, of one applyRecipe call
MaxStructs == 2

\* most template mappings one generateReactions call has to try
MaxCands == 3

\* most reactions a regeneration from the product side leaves
MaxRev == 2

\* most matches of one reactant on one reactant group of the template
MaxSites == 1

\* most reactants of a reaction
MaxReactants == 3

----------------------------------------------------------------------------
(* Values stored in an action.  Python keeps the parameter of an action as *)
(* whatever object the loader put there: an int for the new-style database *)
(* files, a str for the old-style ones.  int() and str() convert between   *)
(* the two, and a str never equals an int.                                 *)

IntVal(n) == [type |-> "int", val |-> n]
StrVal(n) == [type |-> "str", val |-> n]

\* int(v): the integer an int or a decimal str stands for
PyInt(v) == v.val

\* str(n): the canonical decimal string of the integer n
PyStr(n) == StrVal(n)

BondActionNames == {"CHANGE_BOND", "FORM_BOND", "BREAK_BOND"}
RadicalActionNames == {"LOSE_RADICAL", "GAIN_RADICAL"}
PairActionNames == {"LOSE_PAIR", "GAIN_PAIR"}
KnownActionNames == BondActionNames \cup RadicalActionNames \cup PairActionNames

\* [name, center1, info, center2]; an atom action has no center2 ("")
BondAction(name, l1, info, l2) == [name |-> name, c1 |-> l1, info |-> info, c2 |-> l2]
AtomAction(name, l, change) == [name |-> name, c1 |-> l, info |-> change, c2 |-> ""]

\* the actions recipes are built from
ActionSet ==
    {BondAction("CHANGE_BOND", "*1", v, "*2") :
        v \in {IntVal(1), IntVal(-1), StrVal(1), StrVal(-1)}}
    \cup {BondAction(n, "*1", IntVal(o), l2) :
        n \in {"FORM_BOND", "BREAK_BOND"}, o \in {1, 2}, l2 \in {"*2", "*1"}}
    \cup {BondAction(n, "*2", IntVal(1), "*2") : n \in {"FORM_BOND", "BREAK_BOND"}}
    \cup {AtomAction(n, "*2", IntVal(1)) : n \in RadicalActionNames \cup PairActionNames}
    \cup {AtomAction("MOVE_ATOM", "*2", IntVal(1))}

RECURSIVE SeqsUpTo(_, _)
SeqsUpTo(S, n) ==
    IF n = 0 THEN {<<>>}
    ELSE LET shorter == SeqsUpTo(S, n - 1)
         IN shorter \cup {Append(q, a) : q \in {r \in shorter : Len(r) = n - 1}, a \in S}

\* the recipes addAction can build within the bound
RecipeSet == SeqsUpTo(ActionSet, MaxLen) \ {<<>>}

----------------------------------------------------------------------------
(* Structures: atoms carrying a label, a radical count and a lone-pair     *)
(* count, and bonds between pairs of atoms.                                *)

Atoms == {1, 2}
Pairs == {{a, b} : a, b \in Atoms} \ {{a} : a \in Atoms}
NoAtom == 0

NoBondAt == [has |-> FALSE, order |-> 0]
BondOf(o) == [has |-> TRUE, order |-> o]

StructSet ==
    {[label |-> [a \in Atoms |-> IF a = 1 THEN "*1" ELSE l2],
      rad   |-> [a \in Atoms |-> IF a = 2 THEN r ELSE 0],
      lp    |-> [a \in Atoms |-> IF a = 2 THEN p ELSE 0],
      bond  |-> [e \in Pairs |-> b]] :
        l2 \in {"*2", "*1", ""}, r \in {0, 1}, p \in {0, 1},
        b \in {NoBondAt, BondOf(1), BondOf(2), BondOf(3)}}

\* what Graph.getLabeledAtom does for a label no atom carries: the three
\* behaviours the callers in __apply provide for
MissingModes == {"raise", "empty", "none"}

RECURSIVE LabeledFrom(_, _, _)
LabeledFrom(s, label, a) ==
    IF a \notin Atoms THEN <<>>
    ELSE (IF s.label[a] = label THEN <<a>> ELSE <<>>) \o LabeledFrom(s, label, a + 1)

\* struct.getLabeledAtom(label): [raised, atoms]
getLabeledAtom(s, label, mode) ==
    LET found == LabeledFrom(s, label, 1)
    IN IF found # <<>> THEN [raised |-> FALSE, atoms |-> found]
       ELSE IF mode = "raise" THEN [raised |-> TRUE, atoms |-> <<>>]
       ELSE IF mode = "empty" THEN [raised |-> FALSE, atoms |-> <<>>]
       ELSE [raised |-> FALSE, atoms |-> <<NoAtom>>]

hasBond(s, a1, a2) == s.bond[{a1, a2}].has

\* Bond.applyAction(['CHANGE_BOND', ...]): [s, err]
BondChange(s, a1, a2, delta) ==
    LET o == s.bond[{a1, a2}].order + delta
    IN IF o < 0 \/ o > 3 THEN [s |-> s, err |-> "ActionError"]
       ELSE [s |-> [s EXCEPT !.bond[{a1, a2}] = BondOf(o)], err |-> "none"]

\* Atom.applyAction for one electron or one pair: [s, err]
AtomChange(s, a, field, delta) ==
    IF field = "rad"
    THEN IF s.rad[a] + delta < 0 THEN [s |-> s, err |-> "ActionError"]
         ELSE [s |-> [s EXCEPT !.rad[a] = @ + delta], err |-> "none"]
    ELSE IF s.lp[a] + delta < 0 THEN [s |-> s, err |-> "ActionError"]
         ELSE [s |-> [s EXCEPT !.lp[a] = @ + delta], err |-> "none"]

Raise(s, e) == [s |-> s, err |-> e]

\* the part of a bond action that follows the lookup of the two atoms
ApplyBondOnAtoms(s, a, atom1, atom2, doForward) ==
    IF atom1 = NoAtom \/ atom2 = NoAtom \/ atom1 = atom2
    THEN Raise(s, "InvalidActionError")
    ELSE IF a.name = "CHANGE_BOND"
    THEN IF ~hasBond(s, atom1, atom2)
         THEN Raise(s, "ValueError")
         ELSE BondChange(s, atom1, atom2,
                         IF doForward THEN PyInt(a.info) ELSE -PyInt(a.info))
    ELSE IF (a.name = "FORM_BOND" /\ doForward) \/ (a.name = "BREAK_BOND" /\ ~doForward)
    THEN IF hasBond(s, atom1, atom2)
         THEN Raise(s, "InvalidActionError")
         ELSE IF ~(a.info.type = "int" /\ a.info.val \in {1, 0})
         THEN Raise(s, "ValueError")
         ELSE [s |-> [s EXCEPT !.bond[{atom1, atom2}] = BondOf(a.info.val)], err |-> "none"]
    ELSE IF ~hasBond(s, atom1, atom2)
         THEN Raise(s, "InvalidActionError")
         ELSE [s |-> [s EXCEPT !.bond[{atom1, atom2}] = NoBondAt], err |-> "none"]

\* CHANGE_BOND, FORM_BOND, BREAK_BOND
ApplyBondAction(s, a, doForward, mode) ==
    LET g1 == getLabeledAtom(s, a.c1, mode)
        g2 == getLabeledAtom(s, a.c2, mode)
    IN IF a.c1 # a.c2
       THEN IF g1.raised THEN Raise(s, "ValueError")
            ELSE IF g1.atoms = <<>> THEN Raise(s, "IndexError")
            ELSE IF g2.raised THEN Raise(s, "ValueError")
            ELSE IF g2.atoms = <<>> THEN Raise(s, "IndexError")
            ELSE ApplyBondOnAtoms(s, a, g1.atoms[1], g2.atoms[1], doForward)
       ELSE IF g1.raised THEN Raise(s, "ValueError")
            ELSE IF Len(g1.atoms) > 2 THEN Raise(s, "InvalidActionError")
            ELSE IF Len(g1.atoms) # 2 THEN Raise(s, "ValueError")
            ELSE ApplyBondOnAtoms(s, a, g1.atoms[1], g1.atoms[2], doForward)

\* for i in range(change): atom.applyAction([..., 1])
RECURSIVE RepeatAtomChange(_, _, _, _, _)
RepeatAtomChange(s, atom, field, delta, n) ==
    IF n <= 0 THEN [s |-> s, err |-> "none"]
    ELSE LET r == AtomChange(s, atom, field, delta)
         IN IF r.err # "none" THEN r
            ELSE RepeatAtomChange(r.s, atom, field, delta, n - 1)

\* for atom in atoms: ...
RECURSIVE ForEachAtom(_, _, _, _, _, _)
ForEachAtom(s, atoms, i, field, delta, n) ==
    IF i > Len(atoms) THEN [s |-> s, err |-> "none"]
    ELSE IF atoms[i] = NoAtom THEN Raise(s, "InvalidActionError")
    ELSE LET r == RepeatAtomChange(s, atoms[i], field, delta, n)
         IN IF r.err # "none" THEN r
            ELSE ForEachAtom(r.s, atoms, i + 1, field, delta, n)

\* LOSE_RADICAL, GAIN_RADICAL, LOSE_PAIR, GAIN_PAIR
ApplyAtomAction(s, a, doForward, mode) ==
    LET g == getLabeledAtom(s, a.c1, mode)
        gain == a.name \in {"GAIN_RADICAL", "GAIN_PAIR"}
        delta == IF gain = doForward THEN 1 ELSE -1
        field == IF a.name \in RadicalActionNames THEN "rad" ELSE "lp"
    IN IF g.raised THEN Raise(s, "ValueError")
       ELSE ForEachAtom(s, g.atoms, 1, field, delta, PyInt(a.info))

ApplyAction(s, a, doForward, mode) ==
    IF a.name \in BondActionNames THEN ApplyBondAction(s, a, doForward, mode)
    ELSE IF a.name \in RadicalActionNames \cup PairActionNames
    THEN ApplyAtomAction(s, a, doForward, mode)
    ELSE Raise(s, "InvalidActionError")

\* ReactionRecipe.__apply: the actions in order, stopping at the first error
\* [s, err, at]: at is the index of the action that raised (0 if none did)
RECURSIVE ApplyFrom(_, _, _, _, _)
ApplyFrom(s, actions, i, doForward, mode) ==
    IF i > Len(actions) THEN [s |-> s, err |-> "none", at |-> 0]
    ELSE LET r == ApplyAction(s, actions[i], doForward, mode)
         IN IF r.err # "none" THEN [s |-> r.s, err |-> r.err, at |-> i]
            ELSE ApplyFrom(r.s, actions, i + 1, doForward, mode)

Apply(s, actions, doForward, mode) == ApplyFrom(s, actions, 1, doForward, mode)

\* getReverse without the sign change of CHANGE_BOND
ReverseAction_KeepsSign(a) ==
    IF a.name = "CHANGE_BOND"
    THEN <<BondAction("CHANGE_BOND", a.c1, PyStr(PyInt(a.info)), a.c2)>>
    ELSE IF a.name = "FORM_BOND" THEN <<BondAction("BREAK_BOND", a.c1, a.info, a.c2)>>
    ELSE IF a.name = "BREAK_BOND" THEN <<BondAction("FORM_BOND", a.c1, a.info, a.c2)>>
    ELSE IF a.name = "LOSE_RADICAL" THEN <<AtomAction("GAIN_RADICAL", a.c1, a.info)>>
    ELSE IF a.name = "GAIN_RADICAL" THEN <<AtomAction("LOSE_RADICAL", a.c1, a.info)>>
    ELSE IF a.name = "LOSE_PAIR" THEN <<AtomAction("GAIN_PAIR", a.c1, a.info)>>
    ELSE IF a.name = "GAIN_PAIR" THEN <<AtomAction("LOSE_PAIR", a.c1, a.info)>>
    ELSE <<>>

\* the reverse of one action, <<>> for a name getReverse has no branch for
ReverseAction(a) ==
    IF a.name = "CHANGE_BOND"
    THEN <<BondAction("CHANGE_BOND", a.c1, PyStr(-PyInt(a.info)), a.c2)>>
    ELSE IF a.name = "FORM_BOND" THEN <<BondAction("BREAK_BOND", a.c1, a.info, a.c2)>>
    ELSE IF a.name = "BREAK_BOND" THEN <<BondAction("FORM_BOND", a.c1, a.info, a.c2)>>
    ELSE IF a.name = "LOSE_RADICAL" THEN <<AtomAction("GAIN_RADICAL", a.c1, a.info)>>
    ELSE IF a.name = "GAIN_RADICAL" THEN <<AtomAction("LOSE_RADICAL", a.c1, a.info)>>
    ELSE IF a.name = "LOSE_PAIR" THEN <<AtomAction("GAIN_PAIR", a.c1, a.info)>>
    ELSE IF a.name = "GAIN_PAIR" THEN <<AtomAction("LOSE_PAIR", a.c1, a.info)>>
    ELSE <<>>

\* ReactionRecipe.getReverse
RECURSIVE getReverseFrom(_, _)
getReverseFrom(actions, i) ==
    IF i > Len(actions) THEN <<>>
    ELSE ReverseAction(actions[i]) \o getReverseFrom(actions, i + 1)

getReverse(actions) == getReverseFrom(actions, 1)

----------------------------------------------------------------------------
(* SpecRecipe: a recipe R and a labeled structure S are chosen; R is       *)
(* applied to S forward (or in reverse), its reverse recipe is built, and  *)
(* the reverse recipe is applied forward to what the first step left.      *)

NoRecipe == <<>>

NoCall == [isGroup |-> FALSE]

ChargeIdle ==
    /\ arIn = NoCall
    /\ arOut = "idle"

NoPass == [rxns |-> <<>>, labeled |-> {}, raised |-> "none"]

ReverseIdle ==
    /\ revIn = NoCall
    /\ revOut = [result |-> "idle", reverse |-> FALSE]

NoDegeneracy == [at |-> "idle", same |-> 0, reactants |-> <<>>, raised |-> "none", degeneracy |-> 0]

DegIdle ==
    /\ degIn = NoCall
    /\ degOut = NoDegeneracy

TreeIdle ==
    /\ tcfg = NoCall
    /\ procs = <<>>

InducerIdle ==
    /\ TreeIdle
    /\ regSt = NoCall
    /\ kin = NoCall
    /\ rb = NoCall

CallIdle ==
    /\ lrp = NoCall
    /\ ord = NoCall
    /\ db = NoCall

GenIdle ==
    /\ genCfg = NoCall
    /\ gpc = "idle"
    /\ passFwd = TRUE
    /\ tried = <<>>
    /\ gen = NoPass
    /\ reactionList = <<>>

InitRecipe ==
    /\ InducerIdle
    /\ CallIdle
    /\ ChargeIdle
    /\ GenIdle
    /\ ReverseIdle
    /\ DegIdle
    /\ pc = "built"
    /\ recipe \in RecipeSet
    /\ rev = NoRecipe
    /\ revrev = NoRecipe
    /\ struct \in StructSet
    /\ orig = struct
    /\ mid = struct
    /\ err = "none"
    /\ errAt = 0
    /\ err2 = "none"

\* R.applyForward(S)
ApplyForward ==
    /\ pc = "built"
    /\ \E mode \in MissingModes :
         LET r == Apply(struct, recipe, TRUE, mode)
         IN /\ struct' = r.s
            /\ mid' = r.s
            /\ err' = r.err
            /\ errAt' = r.at
    /\ pc' = "forward"
    /\ UNCHANGED <<recipe, rev, revrev, orig, err2, chargeVars, genVars, revVars, degVars, callVars, inducerVars>>

\* R.applyReverse(S)
ApplyReverse ==
    /\ pc = "built"
    /\ \E mode \in MissingModes :
         LET r == Apply(struct, recipe, FALSE, mode)
         IN /\ struct' = r.s
            /\ mid' = r.s
            /\ err' = r.err
            /\ errAt' = r.at
    /\ pc' = "reverse"
    /\ UNCHANGED <<recipe, rev, revrev, orig, err2, chargeVars, genVars, revVars, degVars, callVars, inducerVars>>

\* R.getReverse() and R.getReverse().getReverse()
GetReverse ==
    /\ pc = "forward"
    /\ rev' = getReverse(recipe)
    /\ revrev' = getReverse(getReverse(recipe))
    /\ pc' = "reversed"
    /\ UNCHANGED <<recipe, struct, orig, mid, err, errAt, err2, chargeVars, genVars, revVars, degVars, callVars, inducerVars>>

\* R.getReverse().applyForward(result), when the forward application returned
ApplyReverseRecipe ==
    /\ pc = "reversed"
    /\ err = "none"
    /\ \E mode \in MissingModes :
         LET r == Apply(struct, rev, TRUE, mode)
         IN /\ struct' = r.s
            /\ err2' = r.err
    /\ pc' = "restored"
    /\ UNCHANGED <<recipe, rev, revrev, orig, mid, err, errAt, chargeVars, genVars, revVars, degVars, callVars, inducerVars>>

NextRecipe ==
    \/ ApplyForward
    \/ ApplyReverse
    \/ GetReverse
    \/ ApplyReverseRecipe

SpecRecipe == InitRecipe /\ [][NextRecipe]_vars

----------------------------------------------------------------------------
(* Properties of the recipe engine *)

KnownRecipe(actions) == \A i \in 1..Len(actions) : actions[i].name \in KnownActionNames

\* C1: whenever R.applyForward(S) returned, R.getReverse().applyForward(result)
\* returns too and leaves S exactly as it was: the same bonds with the same
\* orders, and the same radical and lone-pair counts on every atom.
C1_RoundTripRestores ==
    pc = "restored" => (err2 = "none" /\ struct = orig)

\* b is the structural inverse of a, written out kind by kind
IsInverseOf(a, b) ==
    /\ b.c1 = a.c1
    /\ b.c2 = a.c2
    /\ a.name = "CHANGE_BOND" => (b.name = "CHANGE_BOND" /\ PyInt(b.info) = 0 - PyInt(a.info))
    /\ a.name # "CHANGE_BOND" => b.info = a.info
    /\ a.name = "FORM_BOND" => b.name = "BREAK_BOND"
    /\ a.name = "BREAK_BOND" => b.name = "FORM_BOND"
    /\ a.name = "GAIN_RADICAL" => b.name = "LOSE_RADICAL"
    /\ a.name = "LOSE_RADICAL" => b.name = "GAIN_RADICAL"
    /\ a.name = "GAIN_PAIR" => b.name = "LOSE_PAIR"
    /\ a.name = "LOSE_PAIR" => b.name = "GAIN_PAIR"

\* C2: for a recipe R of the seven action kinds, getReverse returns a recipe
\* of the same length whose i-th action is the structural inverse of R's i-th
\* action, and the call leaves R as it was.
C2_ReverseIsActionwiseInverse ==
    [][(pc = "forward" /\ pc' = "reversed" /\ KnownRecipe(recipe))
        => /\ recipe' = recipe
           /\ Len(rev') = Len(recipe)
           /\ \A i \in 1..Len(recipe) : IsInverseOf(recipe[i], rev'[i])]_vars

\* a two-action recipe with a CHANGE_BOND and a radical action has been reversed
C2_Witness ==
    /\ pc = "reversed"
    /\ Len(recipe) = 2
    /\ Len(rev) = 2
    /\ recipe[1].name = "CHANGE_BOND"
    /\ recipe[2].name = "GAIN_RADICAL"

\* C3: R.getReverse().getReverse() is action-wise identical to R: the same
\* number of actions and, position by position, the same name and the same
\* parameter values.
C3_DoubleReverseIdentical ==
    pc = "reversed" => revrev = recipe

\* action i of R names a label that no atom of s carries
NamesMissingLabel(s, a) ==
    \/ \A x \in Atoms : s.label[x] # a.c1
    \/ a.name \in BondActionNames /\ \A x \in Atoms : s.label[x] # a.c2

\* a bond action between two distinct labels that two distinct atoms carry
AddressesTwoAtoms(s, a) ==
    /\ a.name \in BondActionNames
    /\ a.c1 # a.c2
    /\ ~NamesMissingLabel(s, a)
    /\ LabeledFrom(s, a.c1, 1)[1] # LabeledFrom(s, a.c2, 1)[1]

Bonded(s, a) == hasBond(s, LabeledFrom(s, a.c1, 1)[1], LabeledFrom(s, a.c2, 1)[1])

FormsBond(a, doForward) ==
    (a.name = "FORM_BOND" /\ doForward) \/ (a.name = "BREAK_BOND" /\ ~doForward)

BreaksBond(a, doForward) ==
    (a.name = "BREAK_BOND" /\ doForward) \/ (a.name = "FORM_BOND" /\ ~doForward)

\* C4: an application of a recipe of the seven action kinds that comes to an
\* action naming a label no atom carries, to a bond-forming action on two
\* bonded atoms or to a bond-breaking action on two unbonded atoms fails
\* there, and with InvalidActionError.
C4_FailsWithInvalidAction ==
    (pc \in {"forward", "reverse"} /\ KnownRecipe(recipe)) =>
        /\ \A i \in 1..Len(recipe) :
              (NamesMissingLabel(orig, recipe[i]) /\ (errAt = 0 \/ errAt >= i))
                  => (errAt = i /\ err = "InvalidActionError")
        /\ (errAt = 0 /\ AddressesTwoAtoms(orig, recipe[1]))
              => /\ ~(FormsBond(recipe[1], pc = "forward") /\ Bonded(orig, recipe[1]))
                 /\ ~(BreaksBond(recipe[1], pc = "forward") /\ ~Bonded(orig, recipe[1]))
        /\ (errAt # 0 /\ AddressesTwoAtoms(struct, recipe[errAt]))
              => /\ (FormsBond(recipe[errAt], pc = "forward") /\ Bonded(struct, recipe[errAt]))
                      => err = "InvalidActionError"
                 /\ (BreaksBond(recipe[errAt], pc = "forward") /\ ~Bonded(struct, recipe[errAt]))
                      => err = "InvalidActionError"

----------------------------------------------------------------------------
(* SpecCharge: KineticsFamily.applyRecipe.  The call is given the reactant *)
(* structures; the recipe, the kekulization and the split of the edited    *)
(* graph answer as the record arIn says.  The family is none of those the  *)
(* method treats by name.                                                  *)

Charges == {-1, 0, 1}

RECURSIVE SumSeq(_)
SumSeq(q) == IF q = <<>> THEN 0 ELSE Head(q) + SumSeq(Tail(q))

ChargeSeqs == SeqsUpTo(Charges, MaxStructs) \ {<<>>}

\* the calls explored: every charge assignment for a recipe that applies and
\* splits into the expected number of products, and one call for every other
\* way the method ends
RecipeCalls ==
    {[isGroup |-> g, recipeErr |-> "none", validAromatic |-> TRUE, kekulizable |-> TRUE,
      productNum |-> Len(ps), reactantCharges |-> rs, productCharges |-> ps] :
        g \in BOOLEAN, rs \in ChargeSeqs, ps \in ChargeSeqs}
    \cup {[isGroup |-> g, recipeErr |-> e, validAromatic |-> TRUE, kekulizable |-> TRUE,
           productNum |-> 1, reactantCharges |-> <<0>>, productCharges |-> <<0>>] :
        g \in BOOLEAN, e \in {"InvalidActionError", "ActionError"}}
    \cup {[isGroup |-> g, recipeErr |-> "none", validAromatic |-> FALSE, kekulizable |-> k,
           productNum |-> 1, reactantCharges |-> <<0>>, productCharges |-> <<0>>] :
        g \in BOOLEAN, k \in BOOLEAN}
    \cup {[isGroup |-> g, recipeErr |-> "none", validAromatic |-> TRUE, kekulizable |-> TRUE,
           productNum |-> 2, reactantCharges |-> <<0>>, productCharges |-> <<0>>] :
        g \in BOOLEAN}

\* product_net_charge as the loop over product_structures accumulates it: it
\* adds struc.getNetCharge(), struc being the last reactant structure
ProductNetCharge(c) ==
    Len(c.productCharges) * c.reactantCharges[Len(c.reactantCharges)]

AnyCharged(c) ==
    \/ \E i \in 1..Len(c.reactantCharges) : c.reactantCharges[i] # 0
    \/ \E i \in 1..Len(c.productCharges) : c.productCharges[i] # 0

\* KineticsFamily.applyRecipe: the name of the exception raised, "None",
\* "empty" (the empty list) or "products"
applyRecipe(c) ==
    IF c.recipeErr # "none" THEN c.recipeErr
    ELSE IF ~c.validAromatic /\ ~c.isGroup /\ ~c.kekulizable THEN "KekulizationError"
    ELSE IF ~c.validAromatic /\ c.isGroup THEN "empty"
    ELSE IF c.productNum # Len(c.productCharges) THEN "None"
    ELSE IF SumSeq(c.reactantCharges) # ProductNetCharge(c) THEN "None"
    ELSE IF AnyCharged(c) /\ ~c.isGroup THEN "None"
    ELSE "products"

RecipeIdle ==
    /\ pc = "idle"
    /\ recipe = NoRecipe
    /\ rev = NoRecipe
    /\ revrev = NoRecipe
    /\ struct = NoRecipe
    /\ orig = NoRecipe
    /\ mid = NoRecipe
    /\ err = "none"
    /\ errAt = 0
    /\ err2 = "none"

InitCharge ==
    /\ InducerIdle
    /\ CallIdle
    /\ RecipeIdle
    /\ GenIdle
    /\ ReverseIdle
    /\ DegIdle
    /\ arIn \in RecipeCalls
    /\ arOut = "called"

\* one call of applyRecipe
ApplyRecipe ==
    /\ arOut = "called"
    /\ arOut' = applyRecipe(arIn)
    /\ UNCHANGED <<arIn, recipeVars, genVars, revVars, degVars, callVars, inducerVars>>

NextCharge == ApplyRecipe

SpecCharge == InitCharge /\ [][NextCharge]_vars

\* C5: applyRecipe never returns product structures whose total net charge
\* differs from the total net charge of the reactant structures.
C5_ChargeConserved ==
    arOut = "products" => SumSeq(arIn.productCharges) = SumSeq(arIn.reactantCharges)

----------------------------------------------------------------------------
(* SpecGen: one call of KineticsFamily.generateReactions on Molecule       *)
(* reactants, for a family none of whose branches by name applies and      *)
(* whose template has as many reactants as the call (one or two, gas       *)
(* phase).  The matcher, the recipe, the forbidden-structure tests and the *)
(* species comparisons answer per mapping as its record in tried says.     *)

MapCounts == {0, 1, 2}

\* a reactant as __generateReactions wraps it: a list object and the
\* molecules (resonance structures) in it
ReactantLists ==
    LET L1 == [id |-> 1, mols |-> <<1>>]
    IN {<<L1>>, <<[id |-> 1, mols |-> <<1, 2>>]>>, <<L1, [id |-> 2, mols |-> <<2>>]>>, <<L1, L1>>}

\* the mappings of one pass in the order the loops of __generateReactions try
\* them: [structs |-> reactant_structures, maps |-> which match of each, key]
PassMappings(cfg) ==
    LET r == cfg.reactants
        n == cfg.count
        uni == {[structs |-> <<r[1].mols[i]>>, maps |-> <<k>>, key |-> 10 * i + k] :
                   i \in 1..Len(r[1].mols), k \in 1..2}
        one == {c \in uni : c.maps[1] <= n[c.structs[1], 1]}
        ab == IF Len(r) = 2 THEN <<r[1].mols[1], r[2].mols[1]>> ELSE <<0, 0>>
        bi == {[structs |-> <<ab[2], ab[1]>>, maps |-> <<kb, ka>>, key |-> 10 * ka + kb] :
                   ka \in 1..n[ab[1], 1], kb \in 1..n[ab[2], 2]}
              \cup {[structs |-> <<ab[1], ab[2]>>, maps |-> <<ka, kb>>, key |-> 100 + 10 * ka + kb] :
                   ka \in {k \in 1..n[ab[1], 2] : r[1] # r[2]}, kb \in 1..n[ab[2], 1]}
        all == IF Len(r) = 1 THEN one ELSE bi
    IN [i \in 1..Cardinality(all) |->
           CHOOSE c \in all : Cardinality({d \in all : d.key <= c.key}) = i]

\* the calls explored
GenConfigs ==
    {cfg \in [reactants : ReactantLists, count : [{1, 2} \X {1, 2} -> MapCounts],
              productsGiven : BOOLEAN, twoPass : BOOLEAN] :
        /\ \A m \in {1, 2}, s \in {1, 2} :
              (s > Len(cfg.reactants) \/ \A i \in 1..Len(cfg.reactants) :
                  \A j \in 1..Len(cfg.reactants[i].mols) : cfg.reactants[i].mols[j] # m)
                  => cfg.count[m, s] = 0
        /\ Len(PassMappings(cfg)) * (IF cfg.twoPass THEN 2 ELSE 1) <= MaxCands}

\* what the collaborators answer for one mapping: isMoleculeForbidden on the
\* labeled reactants, applyRecipe's course, isMoleculeForbidden and
\* failsSpeciesConstraints on the products, same_species_lists of reactants
\* and products, same_species_lists of the products and the requested ones
Answers ==
    LET ok == [forbiddenReactant |-> FALSE,
               ar |-> [isGroup |-> FALSE, recipeErr |-> "none", validAromatic |-> TRUE,
                       kekulizable |-> TRUE, productNum |-> 1,
                       reactantCharges |-> <<0>>, productCharges |-> <<0>>],
               forbiddenProduct |-> FALSE, sameSpecies |-> FALSE, matches |-> TRUE]
    IN {ok, [ok EXCEPT !.matches = FALSE], [ok EXCEPT !.forbiddenReactant = TRUE],
        [ok EXCEPT !.ar.recipeErr = "InvalidActionError"],
        [ok EXCEPT !.ar.recipeErr = "ActionError"],
        [ok EXCEPT !.ar.productNum = 2],
        [ok EXCEPT !.forbiddenProduct = TRUE], [ok EXCEPT !.sameSpecies = TRUE]}

Input(m) == [kind |-> "input", mol |-> m, of |-> <<>>, fwd |-> TRUE]
Product(c, forward) == [kind |-> "product", mol |-> 0, of |-> c.maps, fwd |-> forward]

\* the structures of a reaction: the reactant molecules and the products made
StructuresOf(rxn) ==
    {Input(rxn.cand.structs[i]) : i \in 1..Len(rxn.cand.structs)}
    \cup {Product(rxn.cand, rxn.forward)}

\* the mapping loop with the except clause for ForbiddenStructureException left out
TryMappingOn_ForbiddenEscapes(st, c, a, forward) ==
    LET tagged == [st EXCEPT !.labeled = @ \cup {Input(c.structs[i]) : i \in 1..Len(c.structs)}]
        r == applyRecipe(a.ar)
    IN IF a.forbiddenReactant THEN [tagged EXCEPT !.raised = "ForbiddenStructureException"]
       ELSE IF r \in {"InvalidActionError", "KekulizationError", "None", "empty"} THEN tagged
       ELSE IF r # "products" THEN [tagged EXCEPT !.raised = r]
       ELSE IF a.forbiddenProduct \/ a.sameSpecies THEN tagged
       ELSE [tagged EXCEPT
                !.rxns = Append(@, [cand |-> c, forward |-> forward, matches |-> a.matches]),
                !.labeled = @ \cup {Product(c, forward)}]

\* one turn of the mapping loops: __generateProductStructures on the mapping
\* and, if it returns structures, __createReaction
TryMappingOn(st, c, a, forward) ==
    LET tagged == [st EXCEPT !.labeled = @ \cup {Input(c.structs[i]) : i \in 1..Len(c.structs)}]
        r == applyRecipe(a.ar)
    IN IF a.forbiddenReactant THEN tagged
       ELSE IF r \in {"InvalidActionError", "KekulizationError", "None", "empty"} THEN tagged
       ELSE IF r # "products" THEN [tagged EXCEPT !.raised = r]
       ELSE IF a.forbiddenProduct \/ a.sameSpecies THEN tagged
       ELSE [tagged EXCEPT
                !.rxns = Append(@, [cand |-> c, forward |-> forward, matches |-> a.matches]),
                !.labeled = @ \cup {Product(c, forward)}]

\* the end of __generateReactions: the filter on the requested products and
\* the loop that restores the labels of each reaction kept, reads them and
\* clears the reaction's reactants and products
FinishPass(st, productsGiven) ==
    LET kept == SelectSeq(st.rxns, LAMBDA x : ~productsGiven \/ x.matches)
        cleared == UNION {StructuresOf(kept[i]) : i \in 1..Len(kept)}
    IN [st EXCEPT !.rxns = kept,
                  !.labeled = {x \in @ \ cleared : x.kind = "input"}]

\* react_molecules without its clearing loop
ClearMolecules_Skipped(labeled, cfg) == labeled

\* react_molecules, after the families: for reactant in molecules:
\* reactant.clearLabeledAtoms()
ClearMolecules(labeled, cfg) ==
    labeled \ {Input(cfg.reactants[i].mols[1]) : i \in 1..Len(cfg.reactants)}

InitGen ==
    /\ InducerIdle
    /\ CallIdle
    /\ RecipeIdle
    /\ ChargeIdle
    /\ ReverseIdle
    /\ DegIdle
    /\ genCfg \in GenConfigs
    /\ gpc = "mappings"
    /\ passFwd = TRUE
    /\ tried = <<<<>>, <<>>>>
    /\ gen = NoPass
    /\ reactionList = <<>>

\* the next mapping of the running pass is tried
TryMapping ==
    /\ gpc = "mappings"
    /\ LET p == IF passFwd THEN 1 ELSE 2
           i == Len(tried[p]) + 1
       IN /\ i <= Len(PassMappings(genCfg))
          /\ \E a \in Answers :
               /\ genCfg.productsGiven \/ a.matches
               /\ gen' = TryMappingOn(gen, PassMappings(genCfg)[i], a, passFwd)
               /\ tried' = [tried EXCEPT ![p] = Append(@, a)]
               /\ gpc' = IF gen'.raised # "none" THEN "raised" ELSE "mappings"
    /\ UNCHANGED <<genCfg, passFwd, reactionList, recipeVars, chargeVars, revVars, degVars, callVars, inducerVars>>

\* the running pass returns; generateReactions starts the reverse pass of a
\* reversible family that is not its own reverse, or returns
ReturnPass ==
    /\ gpc = "mappings"
    /\ Len(tried[IF passFwd THEN 1 ELSE 2]) = Len(PassMappings(genCfg))
    /\ LET done == FinishPass(gen, genCfg.productsGiven)
       IN /\ reactionList' = reactionList \o done.rxns
          /\ gen' = [done EXCEPT !.rxns = <<>>]
    /\ IF passFwd /\ genCfg.twoPass
       THEN passFwd' = FALSE /\ gpc' = "mappings"
       ELSE passFwd' = passFwd /\ gpc' = "familyReturned"
    /\ UNCHANGED <<genCfg, tried, recipeVars, chargeVars, revVars, degVars, callVars, inducerVars>>

\* react_molecules, which passes single molecules, clears them and returns
ReactMoleculesReturn ==
    /\ gpc = "familyReturned"
    /\ \A i \in 1..Len(genCfg.reactants) : Len(genCfg.reactants[i].mols) = 1
    /\ genCfg.reactants # <<genCfg.reactants[1], genCfg.reactants[1]>>
    /\ gen' = [gen EXCEPT !.labeled = ClearMolecules(@, genCfg)]
    /\ gpc' = "returned"
    /\ UNCHANGED <<genCfg, passFwd, tried, reactionList, recipeVars, chargeVars, revVars, degVars, callVars, inducerVars>>

NextGen ==
    \/ TryMapping
    \/ ReturnPass
    \/ ReactMoleculesReturn

SpecGen == InitGen /\ [][NextGen]_vars

----------------------------------------------------------------------------
(* Properties of reaction generation *)

\* a mapping whose recipe application raises InvalidActionError or whose
\* reactant or product matches a forbidden structure
Failing(a) ==
    \/ a.forbiddenReactant
    \/ applyRecipe(a.ar) = "InvalidActionError"
    \/ applyRecipe(a.ar) = "products" /\ a.forbiddenProduct

\* what a pass returns when only the mappings that are not failing are tried
RECURSIVE AloneFrom(_, _, _, _, _)
AloneFrom(st, cands, answers, i, forward) ==
    IF i > Len(answers) THEN st
    ELSE AloneFrom(IF Failing(answers[i]) THEN st
                   ELSE TryMappingOn(st, cands[i], answers[i], forward),
                   cands, answers, i + 1, forward)

Alone(p) ==
    FinishPass(AloneFrom(NoPass, PassMappings(genCfg), tried[p], 1, p = 1),
               genCfg.productsGiven).rxns

\* C6: a failing mapping raises nothing to the caller, and when the call
\* returns every mapping has been tried and the list returned is the list the
\* mappings that are not failing produce alone, in the same order.
C6_FailingMappingIsolated ==
    /\ gpc = "raised" =>
          LET p == IF passFwd THEN 1 ELSE 2 IN ~Failing(tried[p][Len(tried[p])])
    /\ gpc \in {"familyReturned", "returned"} =>
          /\ Len(tried[1]) = Len(PassMappings(genCfg))
          /\ genCfg.twoPass => Len(tried[2]) = Len(PassMappings(genCfg))
          /\ reactionList = Alone(1) \o (IF genCfg.twoPass THEN Alone(2) ELSE <<>>)

\* the first mapping failed and a later one gave a reaction that is returned
C6_Witness ==
    /\ gpc = "familyReturned"
    /\ Len(tried[1]) >= 2
    /\ applyRecipe(tried[1][1].ar) = "InvalidActionError"
    /\ reactionList # <<>>

\* no input molecule and no structure of a returned reaction carries a label
NothingLabeled ==
    LET inputs == UNION {{Input(genCfg.reactants[i].mols[j]) :
                                j \in 1..Len(genCfg.reactants[i].mols)} :
                            i \in 1..Len(genCfg.reactants)}
        returned == UNION {StructuresOf(reactionList[i]) : i \in 1..Len(reactionList)}
    IN gen.labeled \cap (inputs \cup returned) = {}

\* C10 as stated: when KineticsFamily.generateReactions returns, no atom of an
\* input molecule or of a returned reaction's reactants or products carries a
\* template label, whatever the outcome of the call.
C10_NoLabelAfterGenerateReactions ==
    gpc = "familyReturned" => NothingLabeled

\* C10 as amended: when KineticsDatabase.react_molecules returns, no atom of
\* an input molecule or of a returned reaction's reactants or products
\* carries a template label, whatever the outcome of the call.
C10_NoLabelAfterReactMolecules ==
    gpc = "returned" => NothingLabeled

\* react_molecules returned an empty list after mappings were tried
C10_Witness ==
    /\ gpc = "returned"
    /\ reactionList = <<>>
    /\ tried[1] # <<>>
    /\ ~tried[1][Len(tried[1])].forbiddenReactant

----------------------------------------------------------------------------
(* SpecReverse: one call of KineticsFamily.addReverseAttribute.  What the  *)
(* two regenerations from the product side leave after                      *)
(* find_degenerate_reactions is given with the call: the number of          *)
(* reactions and whether all of them are isomorphic to the first.           *)

\* the lists a regeneration can leave: a list of at most one reaction has
\* every reaction isomorphic to the first
Regenerated ==
    {r \in [n : 0..MaxRev, allIso : BOOLEAN] : r.n <= 1 => r.allIso}

ReverseCalls ==
    [ownReverse : BOOLEAN, allReactive : BOOLEAN, first : Regenerated, retry : Regenerated]

\* addReverseAttribute raising KineticsError for any list of several reactions
addReverseAttribute_RejectsSeveral(c) ==
    IF ~(c.ownReverse /\ c.allReactive) THEN [result |-> "None", reverse |-> FALSE]
    ELSE IF c.first.n = 0
         THEN IF c.retry.n = 1 \/ (c.retry.n > 1 /\ c.retry.allIso)
              THEN [result |-> "False", reverse |-> FALSE]
              ELSE [result |-> "KineticsError", reverse |-> FALSE]
    ELSE IF c.first.n > 1 THEN [result |-> "KineticsError", reverse |-> FALSE]
    ELSE [result |-> "True", reverse |-> TRUE]

\* KineticsFamily.addReverseAttribute: what the call returns or raises, and
\* whether it has set rxn.reverse
addReverseAttribute(c) ==
    IF ~(c.ownReverse /\ c.allReactive) THEN [result |-> "None", reverse |-> FALSE]
    ELSE IF c.first.n = 0
         THEN IF c.retry.n = 1 \/ (c.retry.n > 1 /\ c.retry.allIso)
              THEN [result |-> "False", reverse |-> FALSE]
              ELSE [result |-> "KineticsError", reverse |-> FALSE]
    ELSE IF c.first.n > 1 /\ ~c.first.allIso THEN [result |-> "KineticsError", reverse |-> FALSE]
    ELSE [result |-> "True", reverse |-> TRUE]

InitReverse ==
    /\ InducerIdle
    /\ CallIdle
    /\ RecipeIdle
    /\ ChargeIdle
    /\ GenIdle
    /\ DegIdle
    /\ revIn \in ReverseCalls
    /\ revOut = [result |-> "called", reverse |-> FALSE]

\* one call of addReverseAttribute
AddReverseAttribute ==
    /\ revOut.result = "called"
    /\ revOut' = addReverseAttribute(revIn)
    /\ UNCHANGED <<revIn, recipeVars, chargeVars, genVars, degVars, callVars, inducerVars>>

NextReverse == AddReverseAttribute

SpecReverse == InitReverse /\ [][NextReverse]_vars

\* the call has ended, for a family that is its own reverse and a reaction
\* all of whose products have a reactive molecule
Regenerating ==
    revOut.result \notin {"idle", "called"} /\ revIn.ownReverse /\ revIn.allReactive

\* the retry with an empty forbidden list finds the reverse
RetryFinds == revIn.retry.n = 1 \/ (revIn.retry.n > 1 /\ revIn.retry.allIso)

\* C7 as stated: rxn.reverse is set and True returned only when regeneration
\* yields exactly one reverse reaction; zero or several reverse reactions
\* raise KineticsError, except that zero explained by the forbidden
\* structures returns False.
C7_TrueOnlyForExactlyOne ==
    Regenerating =>
        /\ (revOut.result = "True" \/ revOut.reverse) => revIn.first.n = 1
        /\ revIn.first.n > 1 => revOut.result = "KineticsError"
        /\ revIn.first.n = 0 =>
              revOut.result = (IF RetryFinds THEN "False" ELSE "KineticsError")

\* C7 as amended: rxn.reverse is set and True returned exactly when
\* regeneration yields one reverse reaction or several that are all
\* isomorphic to the first; several reverse reactions not all isomorphic
\* raise KineticsError; zero raise KineticsError, except that zero explained
\* by the forbidden structures returns False.
C7_TrueForOneUpToIsomorphism ==
    Regenerating =>
        /\ revOut.reverse <=> revOut.result = "True"
        /\ revOut.result = "True" <=> (revIn.first.n >= 1 /\ revIn.first.allIso)
        /\ (revIn.first.n > 1 /\ ~revIn.first.allIso) => revOut.result = "KineticsError"
        /\ revIn.first.n = 0 =>
              revOut.result = (IF RetryFinds THEN "False" ELSE "KineticsError")

\* regeneration left several reverse reactions, all isomorphic to the first
C7_Witness ==
    /\ Regenerating
    /\ revIn.first.n > 1
    /\ revIn.first.allIso
    /\ revOut.result = "True"

\* generate_reactions_from_families deletes the reaction when what
\* addReverseAttribute returned is not true
to_delete(result) == result \in {"False", "None"}

\* C24: for a reaction of a family that is its own reverse,
\* addReverseAttribute returns True, returns False, which it does only when
\* the reverse direction is forbidden, or raises KineticsError, and nothing
\* else; so generate_reactions_from_families deletes the reaction only when
\* its reverse is forbidden
C24_TrueFalseOrKineticsError ==
    (revOut.result \notin {"idle", "called"} /\ revIn.ownReverse) =>
        /\ revOut.result \in {"True", "False", "KineticsError"}
        /\ revOut.result = "False" => (revIn.first.n = 0 /\ RetryFinds)
        /\ to_delete(revOut.result) => (revIn.first.n = 0 /\ RetryFinds)

----------------------------------------------------------------------------
(* SpecDegen: the same_reactants flag as calculateDegeneracy,               *)
(* generate_reactions_from_families and addReverseAttribute compute it, and *)
(* the rest of calculateDegeneracy.  A reactant is an object (id) holding a *)
(* species (iso): two reactants are the same object when their ids are      *)
(* equal and isomorphic when their species are.  Every reactant has one     *)
(* resonance structure; sites[c][s] is the number of matches of species c   *)
(* on reactant group s of the template, and every mapping gives the         *)
(* requested products.                                                      *)

Places == {"calculateDegeneracy", "generate_reactions_from_families", "addReverseAttribute"}

\* the reactant lists, objects and species numbered in the order they appear
ReactantSeqs ==
    {r \in UNION {[1..n -> [id : 1..MaxReactants, iso : 1..MaxReactants]] : n \in 1..MaxReactants} :
        /\ \A i, j \in DOMAIN r : r[i].id = r[j].id => r[i].iso = r[j].iso
        /\ \A i \in DOMAIN r :
              /\ r[i].id = 1 \/ \E j \in 1..(i - 1) : r[j].id >= r[i].id - 1
              /\ r[i].iso = 1 \/ \E j \in 1..(i - 1) : r[j].iso >= r[i].iso - 1}

\* the calls explored; what the flag does not read is given to
\* calculateDegeneracy only
DegCalls ==
    {c \in [place : Places, reactants : ReactantSeqs,
            sites : [1..MaxReactants -> [1..MaxReactants -> 0..MaxSites]],
            templateBySpecies : BOOLEAN, template : 0..MaxReactants] :
        /\ \A sp, s \in 1..MaxReactants :
              (s > Len(c.reactants) \/ \A i \in DOMAIN c.reactants : c.reactants[i].iso # sp)
                  => c.sites[sp][s] = 0
        /\ c.template # 0 =>
              c.templateBySpecies /\ \E i \in DOMAIN c.reactants : c.reactants[i].iso = c.template
        /\ c.place # "calculateDegeneracy" =>
              /\ \A sp, s \in 1..MaxReactants : c.sites[sp][s] = 0
              /\ ~c.templateBySpecies
              /\ c.template = 0}

\* reactants[i].copy(deep=True): a new object of the same species
DeepCopy(r, S) ==
    [i \in DOMAIN r |-> IF i \in S THEN [r[i] EXCEPT !.id = MaxReactants + i] ELSE r[i]]

\* calculateDegeneracy, to the end of the same_reactants block
calculateDegeneracy_same_reactants(r) ==
    LET is(i, j) == r[i].id = r[j].id
        isIsomorphic(i, j) == r[i].iso = r[j].iso
        to(n, S) == [NoDegeneracy EXCEPT !.at = "flagged", !.same = n, !.reactants = DeepCopy(r, S)]
    IN IF Len(r) = 2
       THEN IF is(1, 2) THEN to(2, {2})
            ELSE IF isIsomorphic(1, 2) THEN to(2, {})
            ELSE to(0, {})
       ELSE IF Len(r) = 3
       THEN IF is(1, 2) /\ is(1, 3) THEN to(3, {2, 3})
            ELSE IF is(1, 2) THEN to(2, {2})
            ELSE IF is(1, 3) THEN to(2, {3})
            ELSE IF is(2, 3) THEN to(2, {3})
            ELSE IF isIsomorphic(1, 2) /\ isIsomorphic(1, 3) THEN to(3, {})
            ELSE IF isIsomorphic(1, 2) \/ isIsomorphic(1, 3) THEN to(2, {})
            ELSE IF isIsomorphic(2, 3) THEN to(2, {})
            ELSE to(0, {})
       ELSE to(0, {})

\* generate_reactions_from_families, to the end of the same_reactants block
from_families_same_reactants(r) ==
    LET is(i, j) == r[i].id = r[j].id
        isIsomorphic(i, j) == r[i].iso = r[j].iso
        to(n, S) == [NoDegeneracy EXCEPT !.at = "done", !.same = n, !.reactants = DeepCopy(r, S)]
    IN IF Len(r) = 2
       THEN IF is(1, 2) THEN to(2, {2})
            ELSE IF isIsomorphic(1, 2) THEN to(2, {})
            ELSE to(0, {})
       ELSE IF Len(r) = 3
       THEN IF is(1, 2) /\ is(1, 3) THEN to(3, {2, 3})
            ELSE IF is(1, 2) THEN to(2, {2})
            ELSE IF is(1, 3) THEN to(2, {3})
            ELSE IF is(2, 3) THEN to(2, {3})
            ELSE IF isIsomorphic(1, 2) /\ isIsomorphic(1, 3) THEN to(3, {})
            ELSE IF isIsomorphic(1, 2) \/ isIsomorphic(1, 3) THEN to(2, {})
            ELSE IF isIsomorphic(2, 3) THEN to(2, {})
            ELSE to(0, {})
       ELSE to(0, {})

\* addReverseAttribute, the same_reactants block on rxn.products
addReverseAttribute_same_reactants(r) ==
    LET isIsomorphic(i, j) == r[i].iso = r[j].iso
        to(n) == [NoDegeneracy EXCEPT !.at = "done", !.same = n, !.reactants = r]
    IN IF Len(r) = 2 /\ isIsomorphic(1, 2) THEN to(2)
       ELSE IF Len(r) = 3
       THEN IF isIsomorphic(1, 2) /\ isIsomorphic(1, 3) THEN to(3)
            ELSE IF isIsomorphic(1, 2) \/ isIsomorphic(1, 3) THEN to(2)
            ELSE IF isIsomorphic(2, 3) THEN to(2)
            ELSE to(0)
       ELSE to(0)

\* the orders tried when the two orders that move all three reactants are left out
OrdersTried_NoCycles(L) ==
    IF Len(L) = 1 THEN {<<1>>}
    ELSE IF Len(L) = 2
    THEN {<<1, 2>>} \cup (IF L[1] # L[2] THEN {<<2, 1>>} ELSE {})
    ELSE {<<1, 2, 3>>}
         \cup (IF L[2] # L[3] THEN {<<1, 3, 2>>} ELSE {})
         \cup (IF L[1] # L[2] THEN {<<2, 1, 3>>} ELSE {})
         \cup (IF L[1] # L[3] THEN {<<3, 2, 1>>} ELSE {})

\* the orders in which __generateReactions matches its reactants with the
\* reactant groups of the template: reactant i with group order[i]; L[i] is
\* the list object it holds as reactant i
OrdersTried(L) ==
    IF Len(L) = 1 THEN {<<1>>}
    ELSE IF Len(L) = 2
    THEN {<<1, 2>>} \cup (IF L[1] # L[2] THEN {<<2, 1>>} ELSE {})
    ELSE {<<1, 2, 3>>}
         \cup (IF L[2] # L[3] THEN {<<1, 3, 2>>} ELSE {})
         \cup (IF L[1] # L[2] THEN {<<2, 1, 3>>} ELSE {})
         \cup (IF L[1] # L[3]
               THEN {<<3, 2, 1>>}
                    \cup (IF L[1] # L[2] /\ L[2] # L[3] THEN {<<3, 1, 2>>, <<2, 3, 1>>} ELSE {})
               ELSE {})

\* the reactions made of the mappings of the orders given: reactant i on
\* group order[i] by its match[i]-th match; the template labels found are
\* the same for all mappings or go by the species on the first group
ReactionsOf(c, r, orders) ==
    UNION {{[order |-> o, match |-> m,
             template |-> IF c.templateBySpecies
                          THEN r[CHOOSE i \in DOMAIN r : o[i] = 1].iso ELSE 0] :
               m \in {f \in [DOMAIN r -> 1..MaxSites] :
                         \A i \in DOMAIN r : f[i] <= c.sites[r[i].iso][o[i]]}} :
           o \in orders}

\* find_degenerate_reactions: the reactions of the template asked for, those
\* of equal template merged into one whose degeneracy is their number,
\* halved or divided by six for two or three reactants that are flagged the
\* same or are isomorphic
find_degenerate_reactions(rxns, same_reactants, c, r) ==
    LET kept == IF c.template = 0 THEN rxns ELSE {x \in rxns : x.template = c.template}
        iso(i, j) == r[i].iso = r[j].iso
        by == IF Len(r) = 2 /\ (same_reactants = 2 \/ iso(1, 2)) THEN 2
              ELSE IF Len(r) = 3 /\ (same_reactants = 3 \/ (iso(1, 2) /\ iso(1, 3))) THEN 6
              ELSE IF Len(r) = 3 /\ (same_reactants = 2 \/ iso(1, 2) \/ iso(1, 3) \/ iso(2, 3)) THEN 2
              ELSE 1
    IN {[template |-> tl, degeneracy |-> Cardinality({x \in kept : x.template = tl}) \div by] :
           tl \in {x.template : x \in kept}}

\* calculateDegeneracy, from the end of the same_reactants block
calculateDegeneracy(c, flagged) ==
    LET r == flagged.reactants
        reactions == find_degenerate_reactions(
                         ReactionsOf(c, r, OrdersTried([i \in DOMAIN r |-> i])),
                         flagged.same, c, r)
    IN IF Cardinality(reactions) # 1
       THEN [flagged EXCEPT !.at = "done", !.raised = "KineticsError"]
       ELSE [flagged EXCEPT !.at = "done",
                            !.degeneracy = (CHOOSE x \in reactions : TRUE).degeneracy]

InitDegen ==
    /\ InducerIdle
    /\ CallIdle
    /\ RecipeIdle
    /\ ChargeIdle
    /\ GenIdle
    /\ ReverseIdle
    /\ degIn \in DegCalls
    /\ degOut = [NoDegeneracy EXCEPT !.at = "called"]

\* the same_reactants block of the method called
SameReactants ==
    /\ degOut.at = "called"
    /\ degOut' = CASE degIn.place = "calculateDegeneracy" ->
                          calculateDegeneracy_same_reactants(degIn.reactants)
                   [] degIn.place = "generate_reactions_from_families" ->
                          from_families_same_reactants(degIn.reactants)
                   [] OTHER -> addReverseAttribute_same_reactants(degIn.reactants)
    /\ UNCHANGED <<degIn, recipeVars, chargeVars, genVars, revVars, callVars, inducerVars>>

\* calculateDegeneracy generates, merges and returns or raises
CalculateDegeneracy ==
    /\ degOut.at = "flagged"
    /\ degOut' = calculateDegeneracy(degIn, degOut)
    /\ UNCHANGED <<degIn, recipeVars, chargeVars, genVars, revVars, callVars, inducerVars>>

NextDegen ==
    \/ SameReactants
    \/ CalculateDegeneracy

SpecDegen == InitDegen /\ [][NextDegen]_vars

\* the flag for reactants r: 3 when three are mutually isomorphic, 2 when two
\* (of two or of three) are isomorphic and no third is isomorphic to them
FlagFor(r) ==
    LET iso(i, j) == r[i].iso = r[j].iso
    IN IF Len(r) = 3 /\ iso(1, 2) /\ iso(1, 3) THEN 3
       ELSE IF \E i, j \in DOMAIN r : i # j /\ iso(i, j) THEN 2
       ELSE 0

\* C9: in each of the three places the same_reactants flag is 3 exactly when
\* three reactants are mutually isomorphic, 2 exactly when two are isomorphic
\* and no third is isomorphic to them, and 0 otherwise, whichever of the
\* reactants are the same object.
C9_FlagCountsIsomorphicReactants ==
    degOut.at \in {"flagged", "done"} => degOut.same = FlagFor(degIn.reactants)

\* the mappings of the reactants onto the template, in any order, that have
\* the template asked for
MappingsAsked ==
    LET r == degIn.reactants
        all == ReactionsOf(degIn, r, {o \in [DOMAIN r -> DOMAIN r] :
                                         \A i, j \in DOMAIN r : o[i] = o[j] => i = j})
    IN IF degIn.template = 0 THEN all ELSE {x \in all : x.template = degIn.template}

\* what tells two mappings apart: the species on each reactant group of the
\* template and the match it is held by
Distinguishable ==
    LET r == degIn.reactants
    IN {[s \in DOMAIN r |->
            LET i == CHOOSE i \in DOMAIN r : x.order[i] = s
            IN <<r[i].iso, x.match[i]>>] : x \in MappingsAsked}

----------------------------------------------------------------------------
(* Tree induction: getExtensionEdge, extendNode, makeTreeNodes.            *)
(*                                                                         *)
(* A training reaction is seen by the patterns through three features of   *)
(* its merged reactants: a, the type of the first labeled atom; b, whether *)
(* that atom has a further neighbour; c, the type of that neighbour.  sp   *)
(* tells apart reactant lists that no pattern distinguishes.  A pattern    *)
(* (Group) gives the values it allows for each feature.  A label is the    *)
(* sequence of the fragments that "_" joins in the source.                 *)

GeneratorIdle == RecipeIdle /\ ChargeIdle /\ GenIdle /\ ReverseIdle /\ DegIdle /\ CallIdle

\* F applied to the value of v, which is computed once
Bind(v, F(_)) == CHOOSE y \in {F(x) : x \in {v}} : TRUE

\* most training reactions given to one makeTreeNodes call
MaxRxns == 6

\* most processes the caller lets makeTreeNodes spawn
MaxProcs == 1

\* most consecutive failed searches at one node that are counted
MaxRetries == 3

\* largest maxRxnsToReoptNode given to generateTree
MaxReopt == 2

Dims == {"a", "b", "c"}

AtomDims == {"a", "c"}

Frag == [a |-> <<"a0", "a1">>, c |-> <<"c0", "c1">>]

ComplementFrag == [f \in {"a0", "a1", "c0", "c1"} |->
    CASE f = "a0" -> "N-a0" [] f = "a1" -> "N-a1" [] f = "c0" -> "N-c0" [] OTHER -> "N-c1"]

RootGroup == [d \in Dims |-> {0, 1}]

NoGroup == [d \in Dims |-> {}]

NoRegDims == [d \in AtomDims |-> <<{}, {}>>]

RxnKinds ==
    {[a |-> 0, b |-> 0, c |-> 0, sp |-> 2]}
    \cup {k \in [a : 0..1, b : 0..1, c : 0..1, sp : {1}] : k.b = 0 => k.c = 0}

RxnKey(k) == 8 * k.a + 4 * k.b + 2 * k.c + k.sp

\* the calls: the reactions (listed in one order per multiset), the processes
\* allowed, the two spawning thresholds, and the regularization dimensions an
\* earlier call left on the root
TreeConfigs ==
    {[rxns |-> r, nprocs |-> n, minSplitableEntryNum |-> 1, minRxnsToSpawn |-> 1, reg |-> g] :
        r \in {s \in UNION {[1..m -> RxnKinds] : m \in 1..MaxRxns} :
                  \A i \in 1..(Len(s) - 1) : RxnKey(s[i]) <= RxnKey(s[i + 1])},
        n \in 0..MaxProcs,
        g \in {NoRegDims, [NoRegDims EXCEPT !["a"] = <<{0}, {0}>>]}}

np_inf == 1000

Entry(label, parent, index, item, reg) ==
    [label |-> label, parent |-> parent, children |-> <<>>, index |-> index, item |-> item, reg |-> reg]

Labels(entries) == {entries[i].label : i \in 1..Len(entries)}

EntryOf(entries, label) == entries[CHOOSE i \in 1..Len(entries) : entries[i].label = label]

isSubgraphIsomorphic(rxn, grp) == \A d \in Dims : rxn[d] \in grp[d]

\* Group.getExtensions: every single-feature refinement of grp, in a fixed
\* order; a feature with a value recorded as matching every reaction is not
\* searched again
getExtensions(grp, reg, basename) ==
    LET one(d, v) ==
            IF v \in grp[d]
            THEN <<[grp |-> [grp EXCEPT ![d] = {v}], grpc |-> [grp EXCEPT ![d] = @ \ {v}],
                    name |-> Append(basename, Frag[d][v + 1]), typ |-> "atomExt", indc |-> d,
                    reg |-> reg]>>
            ELSE <<>>
        atomExt(d) ==
            IF Cardinality(grp[d]) > 1 /\ reg[d][2] = {} THEN one(d, 0) \o one(d, 1) ELSE <<>>
        newBond ==
            IF grp["b"] = {0, 1}
            THEN <<[grp |-> [grp EXCEPT !["b"] = {1}], grpc |-> NoGroup,
                    name |-> Append(basename, "Ext-b"), typ |-> "extNewBondExt", indc |-> "b",
                    reg |-> reg]>>
            ELSE <<>>
    IN atomExt("a") \o newBond \o (IF grp["b"] = {1} THEN atomExt("c") ELSE <<>>)

\* _splitReactions leaving the reactions that match newgrp in the complement too
_splitReactions_KeepsMatched(rxns, newgrp) ==
    [new |-> SelectSeq(rxns, LAMBDA r : isSubgraphIsomorphic(tcfg.rxns[r], newgrp)),
     comp |-> rxns]

_splitReactions(rxns, newgrp) ==
    [new |-> SelectSeq(rxns, LAMBDA r : isSubgraphIsomorphic(tcfg.rxns[r], newgrp)),
     comp |-> SelectSeq(rxns, LAMBDA r : ~isSubgraphIsomorphic(tcfg.rxns[r], newgrp))]

\* the objective "Split: abs(N1-N2)"
getObjectiveFunction(new, old) ==
    IF Len(new) >= Len(old) THEN Len(new) - Len(old) ELSE Len(old) - Len(new)

\* evalExt scoring an extension that every reaction matches as if it split them
evalExt_AllIsSplit(rxns, ext) ==
    Bind(_splitReactions(rxns, ext), LAMBDA s :
       IF Len(s.new) = 0 THEN [val |-> np_inf, boo |-> FALSE]
       ELSE [val |-> getObjectiveFunction(s.new, s.comp), boo |-> TRUE])

evalExt(rxns, ext) ==
    Bind(_splitReactions(rxns, ext), LAMBDA s :
       IF Len(s.new) = 0 THEN [val |-> np_inf, boo |-> FALSE]
       ELSE IF Len(s.comp) = 0 THEN [val |-> np_inf, boo |-> TRUE]
       ELSE [val |-> getObjectiveFunction(s.new, s.comp), boo |-> TRUE])

\* reg_dict of one pass of getExtensionEdge, laid over the dimensions reg holds
reg_dict(exts, rxns, reg) ==
    LET of(d) == {i \in 1..Len(exts) : exts[i].typ = "atomExt" /\ exts[i].indc = d}
        v(i) == CHOOSE x \in exts[i].grp[exts[i].indc] : TRUE
    IN Bind([j \in 1..Len(exts) |-> evalExt(rxns, exts[j].grp)], LAMBDA ev :
          [d \in AtomDims |->
              IF of(d) = {} THEN reg[d]
              ELSE <<{v(i) : i \in {j \in of(d) : ev[j].val # np_inf \/ ev[j].boo}},
                     {v(i) : i \in {j \in of(d) : ev[j].val = np_inf /\ ev[j].boo}}>>])

RECURSIVE ExtensionEdgeLoop(_, _)
ExtensionEdgeLoop(grps, rxns) ==
    IF grps = <<>> THEN <<>>
    ELSE LET top == grps[Len(grps)]
             label(exts) == Bind(reg_dict(exts, rxns, top.reg), LAMBDA lab :
                                [i \in 1..Len(exts) |-> [exts[i] EXCEPT !.reg = lab]])
             out(labelled) == SelectSeq(labelled, LAMBDA e : evalExt(rxns, e.grp).val # np_inf)
             expand(labelled) ==
                 SelectSeq(labelled, LAMBDA e :
                     /\ e.typ \in {"intNewBondExt", "extNewBondExt"}
                     /\ evalExt(rxns, e.grp).val = np_inf
                     /\ evalExt(rxns, e.grp).boo)
             queued(x) == [i \in 1..Len(x) |-> [grp |-> x[i].grp, reg |-> x[i].reg, name |-> x[i].name]]
         IN Bind(Bind(getExtensions(top.grp, top.reg, top.name), label), LAMBDA labelled :
               Bind(<<out(labelled), SubSeq(grps, 1, Len(grps) - 1) \o Bind(expand(labelled), queued)>>,
                    LAMBDA a : a[1] \o ExtensionEdgeLoop(a[2], rxns)))

\* getExtensionEdge holding back every new-bond extension of the node's own
\* pattern, whether or not it splits the reactions
getExtensionEdge_NewBondHeld(parent, rxns) ==
    [out |-> SelectSeq(ExtensionEdgeLoop(<<[grp |-> parent.item, reg |-> parent.reg, name |-> parent.label]>>, rxns),
                       LAMBDA e : ~(e.typ \in {"intNewBondExt", "extNewBondExt"}
                                    /\ Len(e.name) = Len(parent.label) + 1)),
     reg |-> IF parent.children = <<>>
             THEN reg_dict(getExtensions(parent.item, parent.reg, parent.label), rxns, parent.reg)
             ELSE parent.reg]

\* out: the extensions returned; reg: the dimensions left on the parent's group
getExtensionEdge(parent, rxns) ==
    [out |-> ExtensionEdgeLoop(<<[grp |-> parent.item, reg |-> parent.reg, name |-> parent.label]>>, rxns),
     reg |-> IF parent.children = <<>>
             THEN reg_dict(getExtensions(parent.item, parent.reg, parent.label), rxns, parent.reg)
             ELSE parent.reg]

addEntry(entries, parent, grp, reg, name) ==
    LET entry == Entry(name, parent, Len(entries) - 1, grp, reg)
        put == IF name \in Labels(entries)
               THEN [i \in 1..Len(entries) |-> IF entries[i].label = name THEN entry ELSE entries[i]]
               ELSE Append(entries, entry)
    IN [i \in 1..Len(put) |->
          IF put[i].label = parent THEN [put[i] EXCEPT !.children = Append(@, name)] ELSE put[i]]

\* how: "split" when the node was extended, "cleared" when the search found
\* nothing among reactions that differ, "identical" when extendNode returns False
extendNode(entries, templateRxnMap, label) ==
    LET parent == EntryOf(entries, label)
        rs == templateRxnMap[label]
        setReg(r) == [i \in 1..Len(entries) |->
                         IF entries[i].label = label THEN [entries[i] EXCEPT !.reg = r] ELSE entries[i]]
        vals(exts) == [i \in 1..Len(exts) |-> evalExt(rs, exts[i].grp).val]
        min_ind(v) == CHOOSE i \in 1..Len(v) :
                          /\ \A j \in 1..Len(v) : v[i] <= v[j]
                          /\ \A j \in 1..(i - 1) : v[j] # v[i]
        extend(edge, ext) ==
            LET extname == ext.name
                complement == ext.grpc # NoGroup
                cextname == [extname EXCEPT ![Len(extname)] = ComplementFrag[@]]
                reg_dim == IF ext.typ = "atomExt"
                           THEN [ext.reg EXCEPT ![ext.indc] = <<ext.grp[ext.indc], ext.grp[ext.indc]>>]
                           ELSE ext.reg
                e1 == addEntry(setReg(edge.reg), label, ext.grp, reg_dim, extname)
                e2(e) == IF complement THEN addEntry(e, label, ext.grpc, ext.reg, cextname) ELSE e
                keys == DOMAIN templateRxnMap \cup {extname} \cup (IF complement THEN {cextname} ELSE {})
            IN [entries |-> Bind(e1, e2),
                templateRxnMap |->
                    Bind(_splitReactions(rs, ext.grp), LAMBDA s :
                       [k \in keys |->
                           IF k = extname THEN s.new
                           ELSE IF k = label THEN (IF complement THEN <<>> ELSE s.comp)
                           ELSE IF complement /\ k = cextname THEN s.comp
                           ELSE templateRxnMap[k]]),
                boo |-> TRUE, how |-> "split"]
    IN Bind(getExtensionEdge(parent, rs), LAMBDA edge :
          IF edge.out = <<>>
          THEN IF \E q \in 1..Len(rs) : \E j \in 1..(q - 1) : tcfg.rxns[rs[q]] # tcfg.rxns[rs[j]]
               THEN [entries |-> setReg(NoRegDims), templateRxnMap |-> templateRxnMap,
                     boo |-> TRUE, how |-> "cleared"]
               ELSE [entries |-> setReg(edge.reg), templateRxnMap |-> templateRxnMap,
                     boo |-> FALSE, how |-> "identical"]
          ELSE Bind(edge.out[Bind(vals(edge.out), min_ind)], LAMBDA ext : extend(edge, ext)))

\* the labels a reaction is appended to: the root's, then at each node that of
\* the first child it matches
RECURSIVE MatchPath(_, _, _)
MatchPath(entries, label, rxn) ==
    LET hits == SelectSeq(EntryOf(entries, label).children,
                          LAMBDA c : isSubgraphIsomorphic(rxn, EntryOf(entries, c).item))
    IN <<label>> \o (IF hits = <<>> THEN <<>> ELSE MatchPath(entries, hits[1], rxn))

\* getReactionMatches appending a reaction to every child whose pattern it matches
getReactionMatches_EveryMatch(entries, rxns, exactMatchesOnly) ==
    LET on(r, l) == isSubgraphIsomorphic(tcfg.rxns[r], EntryOf(entries, l).item)
        rxn_lists == [l \in Labels(entries) |-> SelectSeq(rxns, LAMBDA r : on(r, l))]
        below(l) == {c \in Labels(entries) :
                        \E i \in 1..Len(EntryOf(entries, l).children) : EntryOf(entries, l).children[i] = c}
    IN IF exactMatchesOnly
       THEN [l \in Labels(entries) |->
                SelectSeq(rxn_lists[l], LAMBDA r : \A c \in below(l) : ~on(r, c))]
       ELSE rxn_lists

getReactionMatches(entries, rxns, exactMatchesOnly) ==
    LET root == entries[1].label
        on(r, l) == \E i \in 1..Len(MatchPath(entries, root, tcfg.rxns[r])) :
                        MatchPath(entries, root, tcfg.rxns[r])[i] = l
        rxn_lists == [l \in Labels(entries) |-> SelectSeq(rxns, LAMBDA r : on(r, l))]
        below(l) == {c \in Labels(entries) :
                        \E i \in 1..Len(EntryOf(entries, l).children) : EntryOf(entries, l).children[i] = c}
    IN IF exactMatchesOnly
       THEN [l \in Labels(entries) |->
                SelectSeq(rxn_lists[l], LAMBDA r : \A c \in below(l) : ~on(r, c))]
       ELSE rxn_lists

\* a worker that starts without deleting the root entry from the registry it
\* inherited from the process that spawned it
Process_KeepsInherited(name, entries, templateRxnMap, nprocs) ==
    [pc |-> "loop", name |-> name,
     entries |-> IF name = <<"Root">> THEN entries
                 ELSE Append(entries, Entry(<<"Root">>, <<>>, 0, RootGroup, NoRegDims)),
     templateRxnMap |-> templateRxnMap,
     psize |-> Len(templateRxnMap[name]), mult_completed_nodes |-> {}, active |-> <<>>,
     free_procs |-> nprocs, extra_entries |-> <<>>, calls |-> <<>>,
     fails |-> [label |-> <<>>, n |-> 0]]

\* the locals of one makeTreeNodes call, as the call starts
Process(name, entries, templateRxnMap, nprocs) ==
    [pc |-> "loop", name |-> name, entries |-> entries, templateRxnMap |-> templateRxnMap,
     psize |-> Len(templateRxnMap[name]), mult_completed_nodes |-> {}, active |-> <<>>,
     free_procs |-> nprocs, extra_entries |-> <<>>, calls |-> <<>>,
     fails |-> [label |-> <<>>, n |-> 0]]

\* the for loop over templateRxnMap.keys(); S holds the locals, what the loop
\* spawned, whether it broke and what it raised; base counts the processes
\* that existed before the loop
RECURSIVE ForLabels(_, _, _)
ForLabels(keys, S, base) ==
    IF keys = <<>> \/ S.broke \/ S.raised # "none" THEN S
    ELSE LET label == Head(keys)
             items == S.templateRxnMap[label]
             entry == EntryOf(S.entries, label)
             procs_out == (Len(items) * S.free_procs) \div S.psize
             child == Process(label, <<[entry EXCEPT !.parent = <<>>]>>,
                              [k \in {label} |-> items], procs_out - 1)
             spawned == [S EXCEPT !.free_procs = @ - procs_out,
                                  !.spawned = Append(@, child),
                                  !.active = Append(@, [proc |-> base + Len(S.spawned) + 1,
                                                        num |-> procs_out])]
             kept == SelectSeq(S.entries, LAMBDA e : e.label # label)
             removed == [i \in 1..Len(kept) |->
                            IF kept[i].label = entry.parent
                            THEN [kept[i] EXCEPT !.children = SelectSeq(@, LAMBDA c : c # label)]
                            ELSE kept[i]]
             called(r) == [S EXCEPT !.entries = r.entries, !.templateRxnMap = r.templateRxnMap,
                                    !.calls = Append(@, [label |-> label, how |-> r.how])]
         IN IF S.psize = 0 \/ ~(Len(items) > 1 /\ label \notin S.mult_completed_nodes)
            THEN Bind(Tail(keys), LAMBDA rest : ForLabels(rest, S, base))
            ELSE IF /\ S.free_procs > 0
                    /\ S.splitable > tcfg.minSplitableEntryNum
                    /\ Len(items) > tcfg.minRxnsToSpawn
            THEN IF S.free_procs - procs_out < 0
                 THEN [S EXCEPT !.free_procs = @ - procs_out, !.raised = "AssertionError"]
                 ELSE IF entry.parent = <<>>
                 THEN [spawned EXCEPT !.raised = "AttributeError"]
                 ELSE Bind(<<Tail(keys),
                             [spawned EXCEPT !.entries = removed,
                                             !.templateRxnMap = [k \in DOMAIN S.templateRxnMap \ {label} |->
                                                                    S.templateRxnMap[k]],
                                             !.splitable = @ - 1]>>,
                           LAMBDA a : ForLabels(a[1], a[2], base))
            ELSE Bind(extendNode(S.entries, S.templateRxnMap, label), LAMBDA r :
                     IF r.boo THEN [called(r) EXCEPT !.broke = TRUE]
                     ELSE Bind(<<Tail(keys), [called(r) EXCEPT !.mult_completed_nodes = @ \cup {label}]>>,
                               LAMBDA a : ForLabels(a[1], a[2], base)))

\* one pass of the while loop of process p: poll and absorb, count, visit, renumber
WhileLoop(ps, p) ==
    LET P == ps[p]
        n == Len(P.active)
        done == {k \in 1..n : ps[P.active[k].proc].pc = "sent"}
        new_entries[k \in 0..n] ==
            IF k = 0 THEN <<>>
            ELSE new_entries[k - 1] \o (IF k \in done THEN ps[P.active[k].proc].entries ELSE <<>>)
        freed[k \in 0..n] ==
            IF k = 0 THEN 0 ELSE freed[k - 1] + (IF k \in done THEN P.active[k].num ELSE 0)
        polled == [w \in 1..Len(ps) |->
                      IF \E k \in done : P.active[k].proc = w
                      THEN [ps[w] EXCEPT !.pc = "terminated"] ELSE ps[w]]
        keys == SelectSeq([i \in 1..Len(P.entries) |-> P.entries[i].label],
                          LAMBDA l : l \in DOMAIN P.templateRxnMap)
        start == Bind(<<keys,
                 [entries |-> P.entries, templateRxnMap |-> P.templateRxnMap, psize |-> P.psize,
                  mult_completed_nodes |-> P.mult_completed_nodes,
                  active |-> SelectSeq(P.active, LAMBDA a : ps[a.proc].pc # "sent"),
                  free_procs |-> P.free_procs + freed[n],
                  splitable |-> Cardinality({l \in DOMAIN P.templateRxnMap :
                                    Len(P.templateRxnMap[l]) > 1 /\ l \notin P.mult_completed_nodes}),
                  calls |-> <<>>, spawned |-> <<>>, broke |-> FALSE, raised |-> "none"]>>,
                     LAMBDA a : ForLabels(a[1], a[2], Len(ps)))
        last(S) == S.calls[Len(S.calls)]
        fails(S) == IF S.calls = <<>> \/ last(S).how = "identical" THEN P.fails
                 ELSE IF last(S).how = "split" THEN [label |-> <<>>, n |-> 0]
                 ELSE IF P.fails.label # last(S).label THEN [label |-> last(S).label, n |-> 1]
                 ELSE IF P.fails.n < MaxRetries THEN [P.fails EXCEPT !.n = @ + 1]
                 ELSE P.fails
        after(S) == [P EXCEPT
                    !.pc = IF S.raised # "none" THEN S.raised
                           ELSE IF ~S.broke /\ S.active = <<>> THEN "merge" ELSE "loop",
                    !.entries = IF S.raised # "none" THEN S.entries
                                ELSE [i \in 1..Len(S.entries) |-> [S.entries[i] EXCEPT !.index = i - 1]],
                    !.templateRxnMap = S.templateRxnMap,
                    !.mult_completed_nodes = S.mult_completed_nodes,
                    !.active = S.active,
                    !.free_procs = S.free_procs,
                    !.extra_entries = @ \o new_entries[n],
                    !.calls = S.calls,
                    !.fails = fails(S)]
    IN Bind(start, LAMBDA S :
          [w \in 1..Len(ps) |-> IF w = p THEN after(S) ELSE polled[w]] \o S.spawned)

\* what follows the while loop: the entries of the other processes are added
\* and the entries left without a parent are linked to the entry their label
\* names; pc is "hang" when the loop looking for that entry cannot end
AfterLoop(P) ==
    LET n == Len(P.extra_entries)
        index == (CHOOSE x \in {P.entries[i].index : i \in 1..Len(P.entries)} :
                     \A i \in 1..Len(P.entries) : P.entries[i].index <= x) + 1
        add(E, item) ==
            IF item.label \in Labels(E) THEN E
            ELSE Append(E, [item EXCEPT !.index = index + Len(E) - Len(P.entries)])
        added[k \in 0..n] ==
            IF k = 0 THEN P.entries
            ELSE Bind(added[k - 1], LAMBDA E : add(E, P.extra_entries[k]))
        orphan(e) == e.parent = <<>> /\ e.label # P.name
        pname(e) == SubSeq(e.label, 1, Len(e.label) - 1)
        link(L, k) ==
            LET e == L.entries[k]
            IN IF L.hang \/ ~orphan(e) THEN L
               ELSE IF pname(e) \notin Labels(L.entries) THEN [L EXCEPT !.hang = TRUE]
               ELSE [L EXCEPT !.entries = [i \in 1..Len(L.entries) |->
                         IF i = k THEN [e EXCEPT !.parent = pname(e)]
                         ELSE IF L.entries[i].label = pname(e)
                         THEN [L.entries[i] EXCEPT !.children = Append(@, e.label)]
                         ELSE L.entries[i]]]
        RECURSIVE linked(_, _)
        linked(L, k) == IF k > Len(L.entries) THEN L ELSE Bind(link(L, k), LAMBDA M : linked(M, k + 1))
    IN Bind(added[n], LAMBDA E :
          Bind(linked([entries |-> E, hang |-> FALSE], 1), LAMBDA L :
             [P EXCEPT !.entries = L.entries,
                       !.pc = IF L.hang THEN "hang"
                              ELSE IF P.name = <<"Root">> THEN "returned" ELSE "sent"]))

InitTree ==
    /\ GeneratorIdle
    /\ rb = NoCall
    /\ regSt = NoCall
    /\ kin = NoCall
    /\ tcfg \in TreeConfigs
    /\ procs = <<Process(<<"Root">>, <<Entry(<<"Root">>, <<>>, 0, RootGroup, tcfg.reg)>>,
                         getReactionMatches(<<Entry(<<"Root">>, <<>>, 0, RootGroup, tcfg.reg)>>,
                                            [i \in 1..Len(tcfg.rxns) |-> i], TRUE),
                         tcfg.nprocs)>>

\* one pass of the while loop of makeTreeNodes, in the coordinator or a worker
MakeTreeNodes(p) ==
    /\ procs[p].pc = "loop"
    /\ procs' = WhileLoop(procs, p)
    /\ UNCHANGED <<tcfg, regSt, kin, rb, generatorVars>>

\* the call returns; a worker then sends its entries through its pipe
Return(p) ==
    /\ procs[p].pc = "merge"
    /\ procs' = [procs EXCEPT ![p] = AfterLoop(procs[p])]
    /\ UNCHANGED <<tcfg, regSt, kin, rb, generatorVars>>

\* regularize asks for the reactions matching each node of the grown tree
GetReactionMatches ==
    /\ procs[1].pc = "returned"
    /\ procs' = [procs EXCEPT ![1].pc = "matched",
                              ![1].templateRxnMap =
                                  getReactionMatches(procs[1].entries,
                                                     [i \in 1..Len(tcfg.rxns) |-> i], FALSE)]
    /\ UNCHANGED <<tcfg, regSt, kin, rb, generatorVars>>

NextTree ==
    \/ \E p \in 1..Len(procs) : MakeTreeNodes(p)
    \/ \E p \in 1..Len(procs) : Return(p)
    \/ GetReactionMatches

SpecTree == InitTree /\ [][NextTree]_vars

\* every process keeps running and every pipe delivers what was sent
FairTree ==
    SpecTree /\ WF_vars(\E p \in 1..Len(procs) : MakeTreeNodes(p) \/ Return(p)) /\ WF_vars(GetReactionMatches)

----------------------------------------------------------------------------
(* C11: the reaction lists of getReactionMatches over a tree grown by      *)
(* extendNode alone (no worker was spawned).                               *)

\* the tree was grown by the coordinator alone and its reactions were matched
MatchedAlone == Len(procs) = 1 /\ procs[1].pc = "matched"

RxnsAt(label) ==
    {procs[1].templateRxnMap[label][i] : i \in 1..Len(procs[1].templateRxnMap[label])}

ChildrenDisjoint(e) ==
    \A j, k \in 1..Len(e.children) :
        j # k => RxnsAt(e.children[j]) \cap RxnsAt(e.children[k]) = {}

ChildrenUnion(e) == UNION {RxnsAt(e.children[j]) : j \in 1..Len(e.children)}

\* C11 as stated: for every node with children, the children's lists are
\* pairwise disjoint and their union is the node's own list
C11_ChildrenPartitionNode ==
    MatchedAlone =>
        \A i \in 1..Len(procs[1].entries) :
            LET e == procs[1].entries[i]
            IN e.children # <<>> => ChildrenDisjoint(e) /\ ChildrenUnion(e) = RxnsAt(e.label)

\* C11, amended: for every node with children, the children's lists are
\* pairwise disjoint and their union is made of the reactions of the node's
\* list that match the pattern of at least one child; the others stay with
\* the node alone
C11_ChildrenPartitionMatching ==
    MatchedAlone =>
        \A i \in 1..Len(procs[1].entries) :
            LET e == procs[1].entries[i]
            IN e.children # <<>> =>
                  /\ ChildrenDisjoint(e)
                  /\ ChildrenUnion(e) =
                         {r \in RxnsAt(e.label) :
                             \E j \in 1..Len(e.children) :
                                 isSubgraphIsomorphic(tcfg.rxns[r],
                                     EntryOf(procs[1].entries, e.children[j]).item)}

\* a grown tree in which one node has two children that both hold reactions,
\* and one node keeps a reaction that none of its children matches
C11_Witness ==
    /\ MatchedAlone
    /\ \E i \in 1..Len(procs[1].entries) :
           LET e == procs[1].entries[i]
           IN \E j, k \in 1..Len(e.children) :
                  j # k /\ RxnsAt(e.children[j]) # {} /\ RxnsAt(e.children[k]) # {}
    /\ \E i \in 1..Len(procs[1].entries) :
           LET e == procs[1].entries[i]
           IN e.children # <<>> /\ ChildrenUnion(e) # RxnsAt(e.label)

----------------------------------------------------------------------------
(* C12: a search that finds no split among reactions that differ.          *)

\* C12: such a node has its regularization dimensions cleared and is retried
\* once; when the retry fails too, the call stops with a KineticsError, so
\* no node is searched in vain more than twice in a row
C12_SecondFailureIsFatal ==
    \A p \in 1..Len(procs) : procs[p].fails.n >= 2 => procs[p].pc = "KineticsError"

----------------------------------------------------------------------------
(* C13: a node whose reactions all have the same reactants.                *)

SameReactantsAt(P, label) ==
    \A q, j \in 1..Len(P.templateRxnMap[label]) :
        tcfg.rxns[P.templateRxnMap[label][q]] = tcfg.rxns[P.templateRxnMap[label][j]]

\* the entry but for the regularization dimensions that the search writes on
\* the atoms of its group
Bare(e) == [e EXCEPT !.reg = NoRegDims]

\* extendNode, called on a node whose reactions all have the same reactants,
\* returns False and leaves the reaction map and every entry as they were
ExtendNodeLeavesIdentical ==
    \A p \in 1..Len(procs) :
        procs[p].pc = "loop" =>
            \A label \in DOMAIN procs[p].templateRxnMap :
                SameReactantsAt(procs[p], label) =>
                    LET r == extendNode(procs[p].entries, procs[p].templateRxnMap, label)
                    IN /\ ~r.boo
                       /\ r.templateRxnMap = procs[p].templateRxnMap
                       /\ Len(r.entries) = Len(procs[p].entries)
                       /\ \A k \in 1..Len(r.entries) : Bare(r.entries[k]) = Bare(procs[p].entries[k])

\* what one pass of the while loop of process p did with the nodes it passed
\* to extendNode: none of them was completed before, and one with identical
\* reactions is completed now and keeps its reactions
TerminalNodesStep(p) ==
    LET P == procs[p]
        Q == procs'[p]
    IN (P.pc = "loop" /\ Q # P) =>
          /\ P.mult_completed_nodes \subseteq Q.mult_completed_nodes
          /\ \A i \in 1..Len(Q.calls) :
                LET label == Q.calls[i].label
                IN /\ label \notin P.mult_completed_nodes
                   /\ SameReactantsAt(P, label) =>
                          /\ Q.calls[i].how = "identical"
                          /\ label \in Q.mult_completed_nodes
                          /\ Q.templateRxnMap[label] = P.templateRxnMap[label]

\* C13: for a node whose reactions all have identical reactants the search
\* finds no split and extendNode returns False, leaving the entries (their
\* labels, patterns, parents and children) and the reaction map as they were;
\* the node is recorded as completed and is not passed to extendNode again;
\* and a call whose reactions are all identical returns
C13_IdenticalNodeIsTerminal ==
    /\ []ExtendNodeLeavesIdentical
    /\ [][\A p \in 1..Len(procs) : TerminalNodesStep(p)]_vars
    /\ (SameReactantsAt(procs[1], <<"Root">>) => <>(procs[1].pc = "returned"))

\* the call returned with the root, which holds several identical reactions,
\* recorded as completed
C13_Witness ==
    /\ procs[1].pc = "returned"
    /\ Len(tcfg.rxns) >= 2
    /\ <<"Root">> \in procs[1].mult_completed_nodes
    /\ procs[1].calls = <<[label |-> <<"Root">>, how |-> "identical"]>>

----------------------------------------------------------------------------
(* C20: the new-bond extensions of a node's own pattern in what            *)
(* getExtensionEdge returns for the node.                                  *)

NewBondTypes == {"intNewBondExt", "extNewBondExt"}

\* the nodes a process may pass to getExtensionEdge: <<p, label>>
Searchable ==
    {n \in UNION {{<<p, l>> : l \in DOMAIN procs[p].templateRxnMap} : p \in 1..Len(procs)} :
        procs[n[1]].pc = "loop" /\ Len(procs[n[1]].templateRxnMap[n[2]]) > 1}

EdgeOf(n) ==
    getExtensionEdge(EntryOf(procs[n[1]].entries, n[2]), procs[n[1]].templateRxnMap[n[2]]).out

\* the new-bond extensions taken straight from the pattern of node n
OwnNewBonds(n) ==
    LET e == EntryOf(procs[n[1]].entries, n[2])
        exts == getExtensions(e.item, e.reg, e.label)
    IN {exts[i] : i \in {j \in 1..Len(exts) : exts[j].typ \in NewBondTypes}}

Returned(n, x) == \E i \in 1..Len(EdgeOf(n)) : EdgeOf(n)[i].name = x.name

Matching(n, x) ==
    {r \in 1..Len(procs[n[1]].templateRxnMap[n[2]]) :
        isSubgraphIsomorphic(tcfg.rxns[procs[n[1]].templateRxnMap[n[2]][r]], x.grp)}

\* C20 as stated: getExtensionEdge never returns a new-bond extension taken
\* straight from the node's own pattern
C20_NewBondNeverReturned ==
    \A n \in Searchable : \A x \in OwnNewBonds(n) : ~Returned(n, x)

\* C20, amended: a new-bond extension of the node's own pattern is returned
\* exactly when it splits the node's reactions (it matches some and not all
\* of them); one that matches every reaction is not returned, and only
\* refinements built on it stand for it in what is returned
C20_NewBondReturnedIffSplits ==
    \A n \in Searchable : \A x \in OwnNewBonds(n) :
        LET all == 1..Len(procs[n[1]].templateRxnMap[n[2]])
        IN /\ Returned(n, x) <=> (Matching(n, x) # {} /\ Matching(n, x) # all)
           /\ \A i \in 1..Len(EdgeOf(n)) :
                  (EdgeOf(n)[i].typ \in NewBondTypes /\ EdgeOf(n)[i].name # x.name) =>
                      /\ Len(EdgeOf(n)[i].name) > Len(x.name)
                      /\ SubSeq(EdgeOf(n)[i].name, 1, Len(x.name)) = x.name
           /\ Matching(n, x) = all =>
                  \A i \in 1..Len(EdgeOf(n)) :
                      SubSeq(EdgeOf(n)[i].name, 1, Len(x.name)) = x.name =>
                          Len(EdgeOf(n)[i].name) > Len(x.name)

\* one node whose new-bond extension splits its reactions and is returned,
\* and one whose new-bond extension matches every reaction and is replaced by
\* a refinement built on it
C20_Witness ==
    /\ \E n \in Searchable : \E x \in OwnNewBonds(n) : Returned(n, x)
    /\ \E n \in Searchable : \E x \in OwnNewBonds(n) :
           /\ Matching(n, x) = 1..Len(procs[n[1]].templateRxnMap[n[2]])
           /\ \E i \in 1..Len(EdgeOf(n)) :
                  /\ Len(EdgeOf(n)[i].name) = Len(x.name) + 1
                  /\ SubSeq(EdgeOf(n)[i].name, 1, Len(x.name)) = x.name

----------------------------------------------------------------------------
(* C15: the entries each process holds while the tree is grown.            *)

\* the processes that run: those that were started, did not stop on an
\* exception and whose entries were not absorbed yet
Running == {p \in 1..Len(procs) : procs[p].pc \in {"loop", "merge", "sent", "hang"}}

\* the labels of the entries process p may grow, and of those it took over
\* from the workers it absorbed
Owned(p) ==
    Labels(procs[p].entries) \cup Labels(procs[p].extra_entries) \cup DOMAIN procs[p].templateRxnMap

\* C15: no entry is held by two processes at once: the labels in the
\* registries and reaction maps of any two running processes are disjoint,
\* and a worker's registry starts from the dispatched node alone
C15_NoEntryInTwoProcesses ==
    /\ \A p, q \in Running : p # q => Owned(p) \cap Owned(q) = {}
    /\ \A p \in Running :
           \A l \in Owned(p) : SubSeq(l, 1, Len(procs[p].name)) = procs[p].name

\* two workers run beside the coordinator, which has grown the tree under
\* the root while one of the workers has grown the node it was given
C15_Witness ==
    /\ Len(procs[1].entries) > 1
    /\ \E p, q \in Running :
           /\ 1 < p /\ p < q
           /\ Len(procs[p].entries) > 1 \/ Len(procs[q].entries) > 1

----------------------------------------------------------------------------
(* C14: the registry a call returns, set against the registry the same     *)
(* call returns when every worker delivers before the process that spawned *)
(* it makes its next pass.                                                 *)

\* most passes of the schedule followed for comparison
MaxPasses == 24

\* the schedule in which the process started last always runs first
RECURSIVE RunWorkersFirst(_, _)
RunWorkersFirst(ps, fuel) ==
    LET live == {p \in 1..Len(ps) : ps[p].pc \in {"loop", "merge"}}
        p == CHOOSE x \in live : \A y \in live : y <= x
    IN IF live = {} \/ fuel = 0 THEN ps
       ELSE IF ps[p].pc = "loop" THEN RunWorkersFirst(WhileLoop(ps, p), fuel - 1)
       ELSE RunWorkersFirst([ps EXCEPT ![p] = AfterLoop(ps[p])], fuel - 1)

\* what the claim compares: the labels with parent, ordered children and index
Registry(entries) ==
    {[label |-> entries[i].label, parent |-> entries[i].parent,
      children |-> entries[i].children, index |-> entries[i].index] : i \in 1..Len(entries)}

FirstCall ==
    <<Process(<<"Root">>, <<Entry(<<"Root">>, <<>>, 0, RootGroup, tcfg.reg)>>,
              [l \in {<<"Root">>} |-> [i \in 1..Len(tcfg.rxns) |-> i]], tcfg.nprocs)>>

\* C14: whatever the order in which the workers delivered, the registry the
\* call returns is the one it returns when they deliver in the order in
\* which they were dispatched
C14_RegistryIndependentOfDelivery ==
    procs[1].pc = "returned" =>
        LET ref == RunWorkersFirst(FirstCall, MaxPasses)[1]
        IN ref.pc = "returned" /\ Registry(procs[1].entries) = Registry(ref.entries)

----------------------------------------------------------------------------
(* C16: the return of makeTreeNodes in the coordinator.                    *)

\* the positions in procs at which a worker may stand: a dispatched node
\* holds two reactions or more
Workers == 2..(1 + MaxRxns \div 2)

\* worker w has sent its entries through its pipe (and once it has, it has
\* for ever; a worker that was dispatched stays in procs)
HasSent(w) == procs[w].pc \in {"sent", "terminated"}

\* on return every worker's entries were received, each is in the registry
\* under its label, and each but the root has its parent there, which lists it
ReturnedComplete ==
    procs[1].pc = "returned" =>
        \A w \in 2..Len(procs) :
            /\ procs[w].pc = "terminated"
            /\ \A i \in 1..Len(procs[w].entries) :
                   LET label == procs[w].entries[i].label
                   IN /\ label \in Labels(procs[1].entries)
                      /\ EntryOf(procs[1].entries, label).item = procs[w].entries[i].item
                      /\ label # <<"Root">> =>
                            LET parent == EntryOf(procs[1].entries, label).parent
                            IN /\ parent \in Labels(procs[1].entries)
                               /\ \E k \in 1..Len(EntryOf(procs[1].entries, parent).children) :
                                      EntryOf(procs[1].entries, parent).children[k] = label

\* C16: when every dispatched worker eventually sends its entries, the call
\* in the coordinator eventually returns; and it returns only with every
\* worker's entries received, registered under their labels and linked to
\* parents that list them
C16_ReturnsOnceWorkersSent ==
    /\ (\A w \in Workers : []<>(Len(procs) < w \/ HasSent(w))) => <>(procs[1].pc = "returned")
    /\ []ReturnedComplete

----------------------------------------------------------------------------
(* simpleRegularization on a node and its children, seen through one       *)
(* feature of one atom or bond of the node's pattern: the atom's types, its *)
(* radical counts, or the bond's orders.  The function treats the features *)
(* one after the other and alike; what rxnsMatchNode answers when the      *)
(* narrowed pattern is tested is left open.                                *)

\* most children of the node
MaxChildren == 2

\* most values listed for a feature in a pattern given to the function
MaxVals == 2

\* R, the elements that stand for the wildcard "R" (two of them here)
R == {"C", "O"}

\* Run, the radical counts that stand for an empty list
Run == 0..3

Kinds == {"atomType", "radicalElectrons", "order"}

\* the lists a pattern may hold for a feature and the values recorded for it
\* as matching every reaction (reg_dim[1]); a bond always lists an order
FeatureVals(kind) ==
    LET upTo(S) == {v \in SUBSET S : Cardinality(v) <= MaxVals}
    IN CASE kind = "atomType" ->
              [val |-> {{"R"}} \cup (upTo({"C", "O", "Cs"}) \ {{}}), reg |-> upTo({"C", "O", "Cs"})]
         [] kind = "radicalElectrons" -> [val |-> upTo(Run), reg |-> upTo(Run)]
         [] OTHER -> [val |-> upTo({1, 2, 3}) \ {{}}, reg |-> upTo({1, 2, 3})]

\* the values a list allows: a lone "R" stands for the elements R and an
\* empty list of radical counts for Run
Allowed(kind, val) ==
    IF kind = "atomType" /\ val = {"R"} THEN R
    ELSE IF kind = "radicalElectrons" /\ val = {} THEN Run
    ELSE val

\* simpleRegularization writing the recorded values over the list without
\* intersecting them with it
simpleRegularization_Overwrites(kind, node, children, skip, matches) ==
    IF skip \/ node.reg = {} \/ node.reg = node.val THEN [val |-> node.val, raised |-> "none"]
    ELSE [val |-> node.reg, raised |-> "none"]

\* simpleRegularization narrowing without looking at the children
simpleRegularization_IgnoresChildren(kind, node, children, skip, matches) ==
    LET vals == Allowed(kind, node.val) \cap node.reg
    IN IF skip \/ Cardinality(node.val) = 1 \/ vals = {} \/ ~matches
       THEN [val |-> node.val, raised |-> "none"]
       ELSE [val |-> vals, raised |-> "none"]

\* the body of simpleRegularization for one feature, after the calls on the
\* children: the list the feature holds afterwards, and what was raised
simpleRegularization(kind, node, children, skip, matches) ==
    LET kids == {children[i].val : i \in 1..Len(children)}
        same == [val |-> node.val, raised |-> "none"]
        tested(vals) == [val |-> IF matches THEN vals ELSE node.val, raised |-> "none"]
    IN CASE kind = "atomType" ->
              IF skip \/ node.reg = {} \/ node.reg = node.val THEN same
              ELSE IF Cardinality(node.val) = 1 /\ node.val \subseteq R THEN same
              ELSE LET vals == Allowed(kind, node.val) \cap node.reg
                   IN IF vals = {} THEN [val |-> node.val, raised |-> "AssertionError"]
                      ELSE IF \A c \in kids : c \subseteq vals THEN tested(vals) ELSE same
         [] kind = "radicalElectrons" ->
              IF skip \/ node.reg = {} \/ node.reg = node.val THEN same
              ELSE IF Cardinality(node.val) = 1 THEN same
              ELSE LET vals == Allowed(kind, node.val) \cap node.reg
                   IN IF vals = {} THEN [val |-> node.val, raised |-> "AssertionError"]
                      ELSE IF \A c \in kids : c # {} /\ c \subseteq vals THEN tested(vals) ELSE same
         [] OTHER ->
              IF skip \/ Cardinality(node.val) = 1 THEN same
              ELSE LET vals == node.val \cap node.reg
                   IN IF vals # {} /\ \A c \in kids : c \subseteq vals THEN tested(vals) ELSE same

\* the calls: a node and its children with the dimensions recorded on each; a
\* child carries the dimensions of its parent or none
InitReg ==
    /\ GeneratorIdle
    /\ rb = NoCall
    /\ TreeIdle
    /\ kin = NoCall
    /\ \E k \in Kinds : \E n \in [val : FeatureVals(k).val, reg : FeatureVals(k).reg] :
           \E m \in 0..MaxChildren : \E c \in [1..m -> [val : FeatureVals(k).val, reg : {{}, n.reg}]] :
               regSt = [kind |-> k, node |-> n, children |-> c,
                        before |-> [node |-> n, children |-> c], at |-> 1, raised |-> "none"]

\* one call of simpleRegularization: on the children, one after the other,
\* then on the node itself
Regularize ==
    /\ regSt # NoCall
    /\ regSt.raised = "none"
    /\ regSt.at <= Len(regSt.children) + 1
    /\ \E skip, matches \in BOOLEAN :
           LET i == regSt.at
               leaf == i <= Len(regSt.children)
               r == IF leaf
                    THEN simpleRegularization(regSt.kind, regSt.children[i], <<>>, skip, matches)
                    ELSE simpleRegularization(regSt.kind, regSt.node, regSt.children,
                                              skip /\ regSt.children = <<>>, matches)
           IN regSt' = [regSt EXCEPT
                           !.children = IF leaf THEN [@ EXCEPT ![i].val = r.val] ELSE @,
                           !.node = IF leaf THEN @ ELSE [@ EXCEPT !.val = r.val],
                           !.raised = r.raised,
                           !.at = @ + 1]
    /\ UNCHANGED <<treeVars, kin, rb, generatorVars>>

\* checkTree on the regularized node: every child must be a specialization
CheckTree ==
    /\ regSt # NoCall
    /\ regSt.raised = "none"
    /\ regSt.at = Len(regSt.children) + 2
    /\ regSt' = [regSt EXCEPT
                    !.at = @ + 1,
                    !.raised = IF \A i \in 1..Len(regSt.children) :
                                      Allowed(regSt.kind, regSt.children[i].val)
                                          \subseteq Allowed(regSt.kind, regSt.node.val)
                               THEN "none" ELSE "ValueError"]
    /\ UNCHANGED <<treeVars, kin, rb, generatorVars>>

NextReg == Regularize \/ CheckTree

SpecReg == InitReg /\ [][NextReg]_vars

----------------------------------------------------------------------------
(* C17, C18: the pattern before and after simpleRegularization.            *)

\* C17: whatever the call has done so far, what the node and each child
\* allow for the feature is part of what they allowed before the call
C17_NeverWidens ==
    regSt # NoCall =>
        /\ Allowed(regSt.kind, regSt.node.val) \subseteq Allowed(regSt.kind, regSt.before.node.val)
        /\ \A i \in 1..Len(regSt.children) :
               Allowed(regSt.kind, regSt.children[i].val)
                   \subseteq Allowed(regSt.kind, regSt.before.children[i].val)

\* the call is over and has narrowed the node, whose list was a lone "R" or
\* an empty list of radical counts, and one of its children
C17_Witness ==
    /\ regSt # NoCall
    /\ regSt.at = Len(regSt.children) + 2
    /\ \/ regSt.kind = "atomType" /\ regSt.before.node.val = {"R"}
       \/ regSt.kind = "radicalElectrons" /\ regSt.before.node.val = {}
    /\ regSt.node.val # regSt.before.node.val
    /\ \E i \in 1..Len(regSt.children) : regSt.children[i].val # regSt.before.children[i].val

\* every child allows no more than the node
Specializations(node, children) ==
    \A i \in 1..Len(children) :
        Allowed(regSt.kind, children[i].val) \subseteq Allowed(regSt.kind, node.val)

\* C18: a call that narrows the feature of the node leaves every child's
\* allowed values within the node's new ones, and a node whose children were
\* all specializations of it before the call has only specializations for
\* children at every point of the call, so that checkTree raises nothing
C18_ChildrenStaySpecializations ==
    /\ [][(regSt # NoCall /\ regSt'.node.val # regSt.node.val)
             => Specializations(regSt'.node, regSt'.children)]_vars
    /\ [](regSt # NoCall /\ Specializations(regSt.before.node, regSt.before.children)
             => Specializations(regSt.node, regSt.children) /\ regSt.raised # "ValueError")

\* checkTree has passed a node that the call narrowed and that has two
\* children, one of which allows less than the other
C18_Witness ==
    /\ regSt # NoCall
    /\ regSt.at = Len(regSt.children) + 3
    /\ regSt.raised = "none"
    /\ regSt.node.val # regSt.before.node.val
    /\ Len(regSt.children) = 2
    /\ regSt.children[1].val # regSt.children[2].val

----------------------------------------------------------------------------
(* __selectBestKinetics on the kinetics getKineticsFromDepository matched   *)
(* in one depository; each is seen through the rank and the index of its   *)
(* entry and the direction in which it matched.                            *)

\* most kinetics matched in one depository
MaxKin == 3

\* highest rank of an entry
MaxRank == 2

\* highest index of an entry
MaxIndex == 1

KineticsLists ==
    UNION {[1..n -> [rank : 0..MaxRank, index : 0..MaxIndex, is_forward : BOOLEAN]] : n \in 1..MaxKin}

\* __selectBestKinetics sorting the list as it is given
__selectBestKinetics_KeepsUnranked(kineticsList) ==
    kineticsList[CHOOSE i \in 1..Len(kineticsList) :
                     /\ \A j \in 1..Len(kineticsList) :
                            \/ kineticsList[i].rank < kineticsList[j].rank
                            \/ /\ kineticsList[i].rank = kineticsList[j].rank
                               /\ kineticsList[i].index <= kineticsList[j].index
                     /\ \A j \in 1..(i - 1) :
                            <<kineticsList[j].rank, kineticsList[j].index>>
                                # <<kineticsList[i].rank, kineticsList[i].index>>]

\* the list without its rank-0 members when some but not all have rank 0,
\* then the first of the list sorted, stably, on (rank, index)
__selectBestKinetics(kineticsList) ==
    LET zero == {i \in 1..Len(kineticsList) : kineticsList[i].rank = 0}
        kept == IF zero # {} /\ zero # 1..Len(kineticsList)
                THEN SelectSeq(kineticsList, LAMBDA x : x.rank # 0)
                ELSE kineticsList
        key(x) == <<x.rank, x.index>>
        before(x, y) == x.rank < y.rank \/ (x.rank = y.rank /\ x.index <= y.index)
    IN kept[CHOOSE i \in 1..Len(kept) :
                /\ \A j \in 1..Len(kept) : before(kept[i], kept[j])
                /\ \A j \in 1..(i - 1) : key(kept[j]) # key(kept[i])]

InitBest ==
    /\ GeneratorIdle
    /\ rb = NoCall
    /\ TreeIdle
    /\ regSt = NoCall
    /\ \E l \in KineticsLists : kin = [kineticsList |-> l, best |-> <<>>]

\* getKinetics, with returnAllKinetics false, returns the best of the first
\* depository that matched any
SelectBestKinetics ==
    /\ kin # NoCall
    /\ kin.best = <<>>
    /\ kin' = [kin EXCEPT !.best = <<__selectBestKinetics(kin.kineticsList)>>]
    /\ UNCHANGED <<treeVars, regSt, rb, generatorVars>>

NextBest == SelectBestKinetics

SpecBest == InitBest /\ [][NextBest]_vars

----------------------------------------------------------------------------
(* C19: the kinetics selected among those matched in one depository.       *)

Selected == kin # NoCall /\ kin.best # <<>>

\* C19: the selected kinetics is one of the list; when some have a rank other
\* than 0 it has the lowest such rank and, among those of that rank, the
\* lowest index; it has rank 0 only when all have, and then the lowest index
C19_LowestNonZeroRankThenIndex ==
    Selected =>
        LET l == kin.kineticsList
            b == kin.best[1]
            ranked == {i \in 1..Len(l) : l[i].rank # 0}
        IN /\ \E i \in 1..Len(l) : l[i] = b
           /\ ranked # {} =>
                  /\ b.rank # 0
                  /\ \A i \in ranked : b.rank <= l[i].rank
                  /\ \A i \in ranked : l[i].rank = b.rank => b.index <= l[i].index
           /\ ranked = {} =>
                  /\ b.rank = 0
                  /\ \A i \in 1..Len(l) : b.index <= l[i].index

\* the one selected stands after an unranked one and after one of a higher
\* rank, and shares its rank with one of a higher index
C19_Witness ==
    /\ Selected
    /\ Len(kin.kineticsList) = 3
    /\ kin.kineticsList[1].rank = 0
    /\ kin.kineticsList[2].rank = kin.best[1].rank
    /\ kin.kineticsList[2].index > kin.best[1].index
    /\ kin.kineticsList[3] = kin.best[1]

----------------------------------------------------------------------------
(* generateTree on more reactions than maxBatchSize, in two batches: the   *)
(* first tcfg.first reactions are grown into a tree, then the tree is       *)
(* pruned, all reactions are matched against it and makeTreeNodes is called *)
(* on the result.                                                           *)

\* the registry pruneTree leaves
pruneTree(entries, rxns, maxRxnsToReoptNode) ==
    LET template_rxn_map == getReactionMatches(entries, rxns, FALSE)
        gone == {l \in Labels(entries) :
                    /\ EntryOf(entries, l).parent # <<>>
                    /\ Len(template_rxn_map[EntryOf(entries, l).parent]) < maxRxnsToReoptNode}
        kept == SelectSeq(entries, LAMBDA e : e.label \notin gone)
    IN [i \in 1..Len(kept) |->
          IF \E k \in 1..Len(kept[i].children) : kept[i].children[k] \in gone
          THEN [kept[i] EXCEPT !.children = SelectSeq(@, LAMBDA c : c \notin gone), !.reg = NoRegDims]
          ELSE kept[i]]

InitCascade ==
    /\ GeneratorIdle
    /\ rb = NoCall
    /\ regSt = NoCall
    /\ kin = NoCall
    /\ \E c \in {x \in TreeConfigs : x.reg = NoRegDims /\ Len(x.rxns) > 1} :
       \E k \in 1..(Len(c.rxns) - 1) : \E m \in 0..MaxReopt :
          /\ tcfg = [rxns |-> c.rxns, nprocs |-> c.nprocs,
                     minSplitableEntryNum |-> c.minSplitableEntryNum,
                     minRxnsToSpawn |-> c.minRxnsToSpawn, reg |-> c.reg,
                     first |-> k, maxRxnsToReoptNode |-> m, batch |-> 1]
          /\ procs = <<Process(<<"Root">>, <<Entry(<<"Root">>, <<>>, 0, RootGroup, c.reg)>>,
                               getReactionMatches(<<Entry(<<"Root">>, <<>>, 0, RootGroup, c.reg)>>,
                                                  [i \in 1..k |-> i], TRUE),
                               c.nprocs)>>

\* the second turn of the loop over the batches
NextBatch ==
    /\ tcfg.batch = 1
    /\ procs[1].pc = "returned"
    /\ tcfg' = [tcfg EXCEPT !.batch = 2]
    /\ procs' = Bind(pruneTree(procs[1].entries, [i \in 1..Len(tcfg.rxns) |-> i], tcfg.maxRxnsToReoptNode),
                     LAMBDA entries :
                        <<Process(<<"Root">>, entries,
                                  getReactionMatches(entries, [i \in 1..Len(tcfg.rxns) |-> i], TRUE),
                                  tcfg.nprocs)>>)
    /\ UNCHANGED <<regSt, kin, rb, generatorVars>>

NextCascade ==
    \/ \E p \in 1..Len(procs) : MakeTreeNodes(p)
    \/ \E p \in 1..Len(procs) : Return(p)
    \/ NextBatch

SpecCascade == InitCascade /\ [][NextCascade]_vars

----------------------------------------------------------------------------
(* C21: the nodes left when makeTreeNodes returns, run without workers.    *)

Unsplit(P) ==
    {l \in DOMAIN P.templateRxnMap :
        /\ EntryOf(P.entries, l).index # -1
        /\ Len(P.templateRxnMap[l]) > 1
        /\ l \notin P.mult_completed_nodes}

\* C21: when makeTreeNodes, called with no process to spawn, has returned,
\* every node of the reaction map holds at most one reaction or was found to
\* hold only identical reactions, whatever the tree the call started from
C21_NoSplittableNodeLeft ==
    (tcfg.nprocs = 0 /\ procs[1].pc = "returned") => Unsplit(procs[1]) = {}

\* the same for a call that starts with reactions on the root
NoneLeftWhenRootHoldsReactions ==
    (tcfg.nprocs = 0 /\ procs[1].pc = "returned" /\ procs[1].psize > 0) => Unsplit(procs[1]) = {}

----------------------------------------------------------------------------
(* C23: the registry before and after the pruning step between two batches. *)

AllRxns == [i \in 1..Len(tcfg.rxns) |-> i]

\* the number of reactions matching node l of the tree about to be pruned
Matching23(l) == Len(getReactionMatches(procs[1].entries, AllRxns, FALSE)[l])

NonRoot == {l \in Labels(procs[1].entries) : EntryOf(procs[1].entries, l).parent # <<>>}

\* C23: pruneTree removes every node other than the root that fewer than
\* maxRxnsToReoptNode reactions match and clears the regularization bounds of
\* its parent; it removes no node that at least maxRxnsToReoptNode reactions match
C23_PruneRemovesSmallNodes ==
    [][(tcfg.batch = 1 /\ tcfg'.batch = 2) =>
          \A l \in NonRoot :
             LET parent == EntryOf(procs[1].entries, l).parent
             IN IF Matching23(l) < tcfg.maxRxnsToReoptNode
                THEN /\ l \notin Labels(procs'[1].entries)
                     /\ parent \in Labels(procs'[1].entries) =>
                            EntryOf(procs'[1].entries, parent).reg = NoRegDims
                ELSE l \in Labels(procs'[1].entries)]_vars

\* what the pruning step does: it removes the nodes whose parent fewer than
\* maxRxnsToReoptNode reactions match, and so none that as many reactions match
PruneRemovesChildrenOfSmallNodes ==
    [][(tcfg.batch = 1 /\ tcfg'.batch = 2) =>
          \A l \in NonRoot :
             LET parent == EntryOf(procs[1].entries, l).parent
             IN /\ l \notin Labels(procs'[1].entries) <=> Matching23(parent) < tcfg.maxRxnsToReoptNode
                /\ Matching23(l) >= tcfg.maxRxnsToReoptNode => l \in Labels(procs'[1].entries)
                /\ (l \notin Labels(procs'[1].entries) /\ parent \in Labels(procs'[1].entries)) =>
                       EntryOf(procs'[1].entries, parent).reg = NoRegDims]_vars

----------------------------------------------------------------------------
(* getRxnBatches.  A reaction is named by its place, 1..n, in the order of  *)
(* the rate coefficients (inds = np.argsort(ks)); outlierFraction is        *)
(* rb.outliers / FractionDen; random.shuffle leaves a stratum in any order. *)

\* most reactions given to getRxnBatches
MaxBatchRxns == 5

\* largest maxBatchSize
MaxBatchSize == 3

\* largest stratumNum
MaxStrata == 3

FractionDen == 4

\* the strata when the last one stops at its interval like the others
Strata_DropsRemainder(inds, stratumNum) ==
    LET interval_length == Len(inds) \div stratumNum
    IN [k \in 1..stratumNum |-> SubSeq(inds, interval_length * (k - 1) + 1, interval_length * k)]

\* the slices of inds that become the strata, before they are shuffled
Strata(inds, stratumNum) ==
    LET interval_length == Len(inds) \div stratumNum
    IN [k \in 1..stratumNum |->
          IF k = 1 THEN SubSeq(inds, 1, interval_length)
          ELSE IF k = stratumNum THEN SubSeq(inds, interval_length * (k - 1) + 1, Len(inds))
          ELSE SubSeq(inds, interval_length * (k - 1) + 1, interval_length * k)]

InitBatches ==
    /\ RecipeIdle /\ ChargeIdle /\ GenIdle /\ ReverseIdle /\ DegIdle /\ CallIdle
    /\ TreeIdle
    /\ regSt = NoCall
    /\ kin = NoCall
    /\ rb \in [n : 0..MaxBatchRxns, maxBatchSize : 1..MaxBatchSize, outliers : 0..FractionDen,
               stratumNum : 1..MaxStrata, strata : {<<>>}, batches : {<<>>}, bind : {0},
               pc : {"called"}]

\* from the call to the start of the while loop
Stratify ==
    /\ rb.pc = "called"
    /\ LET outlier_num == (rb.outliers * rb.n) \div (2 * FractionDen)
           lowouts == [i \in 1..outlier_num |-> i]
           highouts == [i \in 1..outlier_num |-> rb.n - outlier_num + i]
           inds == [i \in 1..(rb.n - 2 * outlier_num) |-> outlier_num + i]
           slices == Strata(inds, rb.stratumNum)
           shuffle(temp) == {[i \in 1..Len(temp) |-> temp[f[i]]] : f \in Permutations(1..Len(temp))}
           RECURSIVE shuffles(_)
           shuffles(k) == IF k = 0 THEN {<<>>}
                          ELSE {Append(s, temp) : s \in shuffles(k - 1), temp \in shuffle(slices[k])}
       IN \E shuffled \in shuffles(rb.stratumNum) :
             /\ rb' = [rb EXCEPT !.strata = shuffled, !.batches = <<highouts \o lowouts>>,
                                 !.bind = 1, !.pc = "sampling"]
    /\ UNCHANGED <<treeVars, regSt, kin, generatorVars>>

\* one turn of the while loop: a reaction is taken from every stratum that has one
Sample ==
    /\ rb.pc = "sampling"
    /\ \E k \in 1..rb.stratumNum : rb.strata[k] # <<>>
    /\ LET pop(S, k) ==
               LET stratum == S.strata[k]
                   batch == Append(S.batches[S.bind], stratum[Len(stratum)])
                   full == Len(batch) >= rb.maxBatchSize
               IN IF stratum = <<>> THEN S
                  ELSE [strata |-> [j \in 1..rb.stratumNum |->
                                       IF j = k THEN SubSeq(stratum, 1, Len(stratum) - 1) ELSE S.strata[j]],
                        batches |-> [j \in 1..(Len(S.batches) + IF full THEN 1 ELSE 0) |->
                                        IF j = S.bind THEN batch
                                        ELSE IF j > Len(S.batches) THEN <<>> ELSE S.batches[j]],
                        bind |-> IF full THEN S.bind + 1 ELSE S.bind]
           after[k \in 0..rb.stratumNum] ==
               IF k = 0 THEN [strata |-> rb.strata, batches |-> rb.batches, bind |-> rb.bind]
               ELSE pop(after[k - 1], k)
       IN rb' = [rb EXCEPT !.strata = after[rb.stratumNum].strata,
                           !.batches = after[rb.stratumNum].batches,
                           !.bind = after[rb.stratumNum].bind]
    /\ UNCHANGED <<treeVars, regSt, kin, generatorVars>>

\* the strata are used up: the batches that hold a reaction are returned
ReturnBatches ==
    /\ rb.pc = "sampling"
    /\ \A k \in 1..rb.stratumNum : rb.strata[k] = <<>>
    /\ rb' = [rb EXCEPT !.batches = SelectSeq(@, LAMBDA inds : Len(inds) > 0), !.pc = "returned"]
    /\ UNCHANGED <<treeVars, regSt, kin, generatorVars>>

NextBatches ==
    \/ Stratify
    \/ Sample
    \/ ReturnBatches

SpecBatches == InitBatches /\ [][NextBatches]_vars

----------------------------------------------------------------------------
(* C22, C28: the batches getRxnBatches returns.                            *)

\* C22: no batch returned holds more than maxBatchSize reactions
C22_BatchesWithinMaxBatchSize ==
    rb.pc = "returned" =>
        \A b \in 1..Len(rb.batches) : Len(rb.batches[b]) <= rb.maxBatchSize

\* the number of times reaction r is in a batch
Occurrences(r) ==
    Cardinality({<<b, i>> \in (1..Len(rb.batches)) \X (1..MaxBatchRxns) :
                    i <= Len(rb.batches[b]) /\ rb.batches[b][i] = r})

\* C28: every reaction given is in exactly one batch returned and is there
\* once, and the batches hold nothing but the reactions given
C28_BatchesPartitionInput ==
    rb.pc = "returned" =>
        /\ \A r \in 1..rb.n : Occurrences(r) = 1
        /\ \A b \in 1..Len(rb.batches) : \A i \in 1..Len(rb.batches[b]) : rb.batches[b][i] \in 1..rb.n

\* outliers went to the first batch, the last stratum took a longer interval
\* than the others and more than one batch was returned
C28_Witness ==
    /\ rb.pc = "returned"
    /\ rb.n = MaxBatchRxns
    /\ (rb.outliers * rb.n) \div (2 * FractionDen) > 0
    /\ rb.stratumNum = 2
    /\ Len(rb.batches) > 1

----------------------------------------------------------------------------
(* getLabeledReactantsAndProducts.  lrp.count[i][s] is the number of        *)
(* matches of reactant i on reactant group s of the forward template; what  *)
(* __generateProductStructures and same_species_lists answer for a mapping  *)
(* is left open.                                                            *)

\* most matches of one reactant on one group
MaxMaps == 1

\* mappings: the length of the list the call builds; num_mappings: the
\* number the call keeps beside it
getLabeledReactantsAndProducts(n, count) ==
    LET permutations == <<<<1, 2, 3>>, <<1, 3, 2>>, <<2, 1, 3>>, <<2, 3, 1>>, <<3, 1, 2>>, <<3, 2, 1>>>>
        product(order) == count[1][order[1]] * count[2][order[2]] * count[3][order[3]]
        extended[k \in 0..6] == IF k = 0 THEN 0 ELSE extended[k - 1] + product(permutations[k])
    IN IF n = 1
       THEN [mappings |-> count[1][1], num_mappings |-> count[1][1]]
       ELSE IF n = 2
       THEN [mappings |-> count[1][1] * count[2][2] + count[1][2] * count[2][1],
             num_mappings |-> count[1][2] * count[2][1]]
       ELSE [mappings |-> extended[6], num_mappings |-> product(permutations[6])]

InitLabeled ==
    /\ RecipeIdle /\ ChargeIdle /\ GenIdle /\ ReverseIdle /\ DegIdle /\ InducerIdle
    /\ ord = NoCall
    /\ db = NoCall
    /\ \E n \in 1..MaxReactants :
       \E count \in [1..MaxReactants -> [1..MaxReactants -> 0..MaxMaps]] :
          /\ \A i, s \in 1..MaxReactants : (i > n \/ s > n) => count[i][s] = 0
          /\ lrp = [n |-> n, count |-> count, tried |-> 0, result |-> "called"]

\* one turn of the loop over the mappings
TryLabeledMapping ==
    /\ lrp.result = "called"
    /\ lrp.tried < getLabeledReactantsAndProducts(lrp.n, lrp.count).mappings
    /\ \E answer \in {"ForbiddenStructureException", "None", "other products", "the products"} :
          lrp' = [lrp EXCEPT !.tried = @ + 1,
                             !.result = IF answer = "the products" THEN "labeled" ELSE @]
    /\ UNCHANGED <<recipeVars, chargeVars, genVars, revVars, degVars, ord, db, inducerVars>>

\* the loop has run through the mappings
ReturnLabeled ==
    /\ lrp.result = "called"
    /\ lrp.tried = getLabeledReactantsAndProducts(lrp.n, lrp.count).mappings
    /\ lrp' = [lrp EXCEPT !.result =
                  IF getLabeledReactantsAndProducts(lrp.n, lrp.count).num_mappings > 0
                  THEN "ActionError" ELSE "(None, None)"]
    /\ UNCHANGED <<recipeVars, chargeVars, genVars, revVars, degVars, ord, db, inducerVars>>

NextLabeled ==
    \/ TryLabeledMapping
    \/ ReturnLabeled

SpecLabeled == InitLabeled /\ [][NextLabeled]_vars

----------------------------------------------------------------------------
(* C25: how getLabeledReactantsAndProducts ends when no mapping gives the  *)
(* products.                                                                *)

\* the reactants can be mapped onto the template in some order
MappingExists ==
    \E order \in [1..lrp.n -> 1..lrp.n] :
       /\ \A i, j \in 1..lrp.n : order[i] = order[j] => i = j
       /\ \A i \in 1..lrp.n : lrp.count[i][order[i]] > 0

\* C25: (None, None) is returned only when the reactants have no mapping onto
\* the template in any order; when they have one and no mapping gives the
\* products, ActionError is raised
C25_NoneOnlyWithoutMapping ==
    /\ lrp.result = "(None, None)" => ~MappingExists
    /\ (lrp.result \in {"(None, None)", "ActionError"} /\ MappingExists) => lrp.result = "ActionError"

----------------------------------------------------------------------------
(* KineticsDatabase.generate_reactions and generate_reactions_from_families *)
(* on one combination of reactant molecules.  db.yield[f] is the number of  *)
(* reactions generateReactions of family f returns for them, db.reverse[f]  *)
(* whether addReverseAttribute succeeds on a reaction of f, db.library the  *)
(* number of reactions the reaction libraries hold for the reactants.       *)

\* families loaded in the database
MaxFamilies == 3

\* most reactions one family or the libraries give
MaxYield == 1

Families == 1..MaxFamilies

\* only_families: None, or the labels listed
NoFamilies == [given |-> FALSE, labels |-> {}]

InitDb ==
    /\ RecipeIdle /\ ChargeIdle /\ GenIdle /\ ReverseIdle /\ DegIdle /\ InducerIdle
    /\ lrp = NoCall
    /\ ord = NoCall
    /\ \E entry \in {"generate_reactions", "generate_reactions_from_families"} :
       \E only_families \in {NoFamilies} \cup {[given |-> TRUE, labels |-> S] : S \in SUBSET Families} :
       \E yield \in [Families -> 0..MaxYield], ownReverse \in [Families -> BOOLEAN], library \in 0..MaxYield :
          db = [entry |-> entry, only_families |-> only_families, yield |-> yield,
                ownReverse |-> ownReverse, library |-> library,
                at |-> IF entry = "generate_reactions" THEN "called" ELSE "families",
                passed |-> IF entry = "generate_reactions" THEN NoFamilies ELSE only_families,
                done |-> {}, reactionList |-> <<>>, reaction_list |-> <<>>]

\* generate_reactions up to its call of generate_reactions_from_families
GenerateFromLibraries ==
    /\ db.at = "called"
    /\ db' = [db EXCEPT !.at = "families",
                        !.passed = NoFamilies,
                        !.reactionList = IF ~db.only_families.given
                                         THEN [i \in 1..db.library |-> [family |-> 0, reverse |-> TRUE]]
                                         ELSE <<>>]
    /\ UNCHANGED <<recipeVars, chargeVars, genVars, revVars, degVars, lrp, ord, inducerVars>>

\* react_molecules: one turn of the loop over the families
ReactMolecules ==
    /\ db.at = "families"
    /\ \E label \in Families \ db.done :
          db' = [db EXCEPT !.done = @ \cup {label},
                           !.reaction_list =
                               IF ~db.passed.given \/ label \in db.passed.labels
                               THEN @ \o [i \in 1..db.yield[label] |->
                                             [family |-> label, reverse |-> ~db.ownReverse[label]]]
                               ELSE @]
    /\ UNCHANGED <<recipeVars, chargeVars, genVars, revVars, degVars, lrp, ord, inducerVars>>

\* generate_reactions_from_families after react_molecules, then the return
\* of the method the caller entered
ReturnReactions ==
    /\ db.at = "families"
    /\ db.done = Families
    /\ \E successful \in [Families -> BOOLEAN] :
          db' = [db EXCEPT !.at = "returned",
                           !.reaction_list = <<>>,
                           !.reactionList =
                               @ \o [i \in 1..Len(SelectSeq(db.reaction_list,
                                                    LAMBDA rxn : rxn.reverse \/ successful[rxn.family])) |->
                                       [SelectSeq(db.reaction_list,
                                                  LAMBDA rxn : rxn.reverse \/ successful[rxn.family])[i]
                                           EXCEPT !.reverse = TRUE]]]
    /\ UNCHANGED <<recipeVars, chargeVars, genVars, revVars, degVars, lrp, ord, inducerVars>>

NextDb ==
    \/ GenerateFromLibraries
    \/ ReactMolecules
    \/ ReturnReactions

SpecDb == InitDb /\ [][NextDb]_vars

----------------------------------------------------------------------------
(* C30: what generate_reactions returns when only_families is given.       *)

\* C30: every reaction generate_reactions returns for a call with
\* only_families given is a reaction of one of the families listed, none is
\* of another family and none is a library reaction
C30_OnlyListedFamilies ==
    (db.entry = "generate_reactions" /\ db.at = "returned" /\ db.only_families.given) =>
        \A i \in 1..Len(db.reactionList) : db.reactionList[i].family \in db.only_families.labels

\* the same for a call of generate_reactions_from_families, and no library
\* reaction is returned by either method when only_families is given
OnlyListedFamiliesWhenCalledDirectly ==
    (db.at = "returned" /\ db.only_families.given) =>
        /\ \A i \in 1..Len(db.reactionList) : db.reactionList[i].family # 0
        /\ db.entry = "generate_reactions_from_families" =>
              \A i \in 1..Len(db.reactionList) : db.reactionList[i].family \in db.only_families.labels

----------------------------------------------------------------------------
(* The gas-phase branches of __generateReactions for two and three          *)
(* reactants.  ord.lists[i] names the list object held as reactant i, each  *)
(* list holding one molecule; ord.count[l][s] is the number of matches of   *)
(* the molecule of list l on reactant group s that lead to a reaction.      *)
(* An order gives, for each reactant, the reactant group it is matched on.  *)

\* the orders tried when the swap of the first two reactants is tried
\* whether or not they are the same object
ReactantOrders_AlwaysSwapsFirstTwo(L) ==
    IF Len(L) = 2
    THEN <<<<1, 2>>, <<2, 1>>>>
    ELSE <<<<1, 2, 3>>>>
         \o (IF L[2] # L[3] THEN <<<<1, 3, 2>>>> ELSE <<>>)
         \o <<<<2, 1, 3>>>>
         \o (IF L[1] # L[3]
             THEN <<<<3, 2, 1>>>>
                  \o (IF L[1] # L[2] /\ L[2] # L[3] THEN <<<<3, 1, 2>>, <<2, 3, 1>>>> ELSE <<>>)
             ELSE <<>>)

\* the orders in the sequence in which the branch tries them
ReactantOrders(L) ==
    IF Len(L) = 2
    THEN <<<<1, 2>>>> \o (IF L[1] # L[2] THEN <<<<2, 1>>>> ELSE <<>>)
    ELSE <<<<1, 2, 3>>>>
         \o (IF L[2] # L[3] THEN <<<<1, 3, 2>>>> ELSE <<>>)
         \o (IF L[1] # L[2] THEN <<<<2, 1, 3>>>> ELSE <<>>)
         \o (IF L[1] # L[3]
             THEN <<<<3, 2, 1>>>>
                  \o (IF L[1] # L[2] /\ L[2] # L[3] THEN <<<<3, 1, 2>>, <<2, 3, 1>>>> ELSE <<>>)
             ELSE <<>>)

InitOrders ==
    /\ RecipeIdle /\ ChargeIdle /\ GenIdle /\ ReverseIdle /\ DegIdle /\ InducerIdle
    /\ lrp = NoCall
    /\ db = NoCall
    /\ \E n \in 2..MaxReactants :
       \E lists \in [1..n -> 1..n] :
       \E count \in [1..MaxReactants -> [1..MaxReactants -> 0..MaxMaps]] :
          /\ \A i \in 1..n : lists[i] = 1 \/ \E j \in 1..(i - 1) : lists[j] >= lists[i] - 1
          /\ \A l, s \in 1..MaxReactants :
                (s > n \/ \A i \in 1..n : lists[i] # l) => count[l][s] = 0
          /\ ord = [lists |-> lists, count |-> count, tried |-> <<>>, rxn_list |-> <<>>]

\* the loops over the matches of the reactants in one order
GenerateProductsAndReactions ==
    /\ ord # NoCall
    /\ Len(ord.tried) < Len(ReactantOrders(ord.lists))
    /\ LET order == ReactantOrders(ord.lists)[Len(ord.tried) + 1]
           maps == {m \in [DOMAIN order -> 1..MaxMaps] :
                       \A i \in DOMAIN order : m[i] <= ord.count[ord.lists[i]][order[i]]}
       IN ord' = [ord EXCEPT !.tried = Append(@, order),
                             !.rxn_list = @ \o [k \in 1..Cardinality(maps) |-> order]]
    /\ UNCHANGED <<recipeVars, chargeVars, genVars, revVars, degVars, lrp, db, inducerVars>>

NextOrders == GenerateProductsAndReactions

SpecOrders == InitOrders /\ [][NextOrders]_vars

----------------------------------------------------------------------------
(* C29: the orders tried, set against the assignments of the reactant      *)
(* lists to the reactant groups that can be told apart.                     *)

\* every order was tried
OrdersDone == ord # NoCall /\ Len(ord.tried) = Len(ReactantOrders(ord.lists))

\* the list object that order o puts on reactant group s
OnGroup(o, s) == ord.lists[CHOOSE i \in DOMAIN o : o[i] = s]

SameAssignment(o, p) == \A s \in DOMAIN o : OnGroup(o, s) = OnGroup(p, s)

Assignments ==
    {o \in [DOMAIN ord.lists -> DOMAIN ord.lists] : \A i, j \in DOMAIN o : o[i] = o[j] => i = j}

\* C29: the orders tried cover every assignment of the reactant lists to the
\* reactant groups exactly once, assignments that differ only in lists that
\* are the same object counting as one: 2 orders for two lists that differ
\* and 1 for the same list twice, 6 orders for three lists that all differ,
\* 3 when exactly two are the same object and 1 when all three are
C29_OrdersCoverAssignmentsOnce ==
    OrdersDone =>
        /\ \A o \in Assignments :
              Cardinality({k \in 1..Len(ord.tried) : SameAssignment(ord.tried[k], o)}) = 1
        /\ Len(ord.tried) =
              (CASE Cardinality({ord.lists[i] : i \in DOMAIN ord.lists}) = Len(ord.lists) ->
                        (IF Len(ord.lists) = 2 THEN 2 ELSE 6)
                 [] Cardinality({ord.lists[i] : i \in DOMAIN ord.lists}) = 1 -> 1
                 [] OTHER -> 3)

\* three reactants, the first two the same list object, every order tried
\* and a reaction found in an order other than the first
C29_Witness ==
    /\ OrdersDone
    /\ Len(ord.lists) = 3
    /\ ord.lists[1] = ord.lists[2]
    /\ ord.lists[1] # ord.lists[3]
    /\ Len(ord.tried) = 3
    /\ \E k \in 1..Len(ord.rxn_list) : ord.rxn_list[k] # <<1, 2, 3>>

----------------------------------------------------------------------------
(* C27: the worker slots of the makeTreeNodes call of the coordinator,     *)
(* which is given nprocs slots.                                            *)

RECURSIVE SlotsHeld(_)
SlotsHeld(active) == IF active = <<>> THEN 0 ELSE Head(active).num + SlotsHeld(Tail(active))

\* C27: in every state free_procs is between 0 and nprocs, free_procs and
\* the slots held by the active workers add up to nprocs, and no more than
\* nprocs workers are active at once
C27_SlotsAccounted ==
    /\ procs[1].free_procs \in 0..tcfg.nprocs
    /\ procs[1].free_procs + SlotsHeld(procs[1].active) = tcfg.nprocs
    /\ Len(procs[1].active) <= tcfg.nprocs

----------------------------------------------------------------------------
(* C26: the reaction map under the extendNode calls of the coordinator,    *)
(* while no worker holds a part of it.                                     *)

\* the places at which reaction r stands in the lists of the map
PlacesOf(map, r) == {<<l, i>> \in (DOMAIN map) \X (1..MaxRxns) : i <= Len(map[l]) /\ map[l][i] = r}

\* every reaction given to the call stands in exactly one list of the map
EveryReactionInOneList ==
    (Len(procs) = 1 /\ procs[1].pc # "matched") =>
        \A r \in 1..Len(tcfg.rxns) : Cardinality(PlacesOf(procs[1].templateRxnMap, r)) = 1

\* a pass of the while loop in which extendNode added a child to a node: the
\* child holds a reaction, and so does the complement sibling, the node's own
\* list being empty, or, when there is no complement, the node itself
ExtendNodeLeavesNoneEmpty ==
    LET P == procs[1]
        Q == procs'[1]
        parent == Q.calls[Len(Q.calls)].label
        added == DOMAIN Q.templateRxnMap \ DOMAIN P.templateRxnMap
    IN (/\ Len(procs) = 1 /\ Len(procs') = 1
        /\ P.pc = "loop" /\ Q # P
        /\ Q.calls # <<>>
        /\ Q.calls[Len(Q.calls)].how = "split") =>
          /\ added # {}
          /\ \A l \in added : EntryOf(Q.entries, l).parent = parent /\ Len(Q.templateRxnMap[l]) >= 1
          /\ IF Cardinality(added) = 2
             THEN Q.templateRxnMap[parent] = <<>>
             ELSE Cardinality(added) = 1 /\ Len(Q.templateRxnMap[parent]) >= 1

\* C26: every reaction of the initial reaction map stands in exactly one
\* list of the map after any number of extendNode calls, and each call that
\* adds a child gives it at least one reaction and leaves at least one to
\* the complement sibling (the parent's list then being empty) or, when no
\* complement is made, to the parent
C26_ExtendNodeConservesReactions ==
    []EveryReactionInOneList /\ [][ExtendNodeLeavesNoneEmpty]_vars

\* a tree grown by extendNode alone in which one node was split into a child
\* and its complement and another got a child without a complement
C26_Witness ==
    /\ Len(procs) = 1
    /\ procs[1].pc = "returned"
    /\ \E l \in DOMAIN procs[1].templateRxnMap :
          /\ l[Len(l)] = "Ext-b"
          /\ procs[1].templateRxnMap[l] # <<>>
          /\ procs[1].templateRxnMap[EntryOf(procs[1].entries, l).parent] # <<>>
    /\ \E l \in DOMAIN procs[1].templateRxnMap :
          /\ l[Len(l)] \in {"N-a0", "N-a1", "N-c0", "N-c1"}
          /\ procs[1].templateRxnMap[l] # <<>>
          /\ procs[1].templateRxnMap[EntryOf(procs[1].entries, l).parent] = <<>>

====
